---- MODULE Spec2Model ----
(***************************************************************************)
(* State-machine model of the front-end loaders of the theme:              *)
(*   ModuleLoader      (src/js/module-loader.js)                           *)
(*   CodeSplitter      (src/js/code-splitter.js)                           *)
(*   ResourcePreloader (src/unnamed/part_000)                              *)
(* Every script runs on the browser's main thread.  A macrotask (a call    *)
(* made by page code, a script load/error event, a timer) runs to          *)
(* completion together with the promise reactions it makes ready, so an    *)
(* action below is one macrotask, or one promise reaction while reactions  *)
(* are still queued.                                                       *)
(***************************************************************************)
EXTENDS Integers, Sequences, FiniteSets, TLC

VARIABLES
    ml_loadedModules,   \* ModuleLoader.loadedModules : Set of src
    ml_loadingModules,  \* ModuleLoader.loadingModules: src -> promise (0: no entry)
    ml_moduleCache,     \* ModuleLoader.moduleCache   : src -> script (0: no entry)
    ml_scripts,         \* the script elements createLoadingPromise created, with their promise
    ml_calls,           \* the loadModule calls made so far and how each settled
    cs_moduleRegistry,  \* CodeSplitter.moduleRegistry : the registered modules, in insertion order
    cs_loadedModules,   \* CodeSplitter.loadedModules  : Set of module names
    cs_failedModules,   \* CodeSplitter.failedModules  : Set of module names
    cs_loadingPromises, \* CodeSplitter.loadingPromises: name -> promise (0: no entry)
    cs_scripts,         \* the script elements createModuleLoadingPromise created, with their promise
    cs_calls,           \* the loadModule calls (async frames) made so far
    cs_critical,        \* the position of loadCriticalModules in its loop
    rp_links,           \* the link elements the ResourcePreloader created
    rp_head,            \* those of them attached to document.head, in document order
    rp_resourceHints,   \* ResourcePreloader.resourceHints: key -> link element
    rp_preloadQueue,    \* ResourcePreloader.preloadQueue
    rp_preloadedResources, \* ResourcePreloader.preloadedResources
    rp_strategy,        \* ResourcePreloader.strategy ("undefined" until first set)
    rp_connection,      \* the current reading of navigator.connection
    ml_observed,        \* the elements ModuleLoader's IntersectionObserver observes
    ml_listeners,       \* the event types ModuleLoader's preloadOnInteraction listens to
    cs_setup,           \* the setup methods of the CodeSplitter page code has called
    cs_observed,        \* the elements CodeSplitter's IntersectionObserver observes
    cs_listeners,       \* the event types CodeSplitter's preloadOnInteraction listens to
    cs_links,           \* the modulepreload links CodeSplitter.preloadModule appended
    cs_requests,        \* the importModule and preloadModule calls of page code, and how each settled
    rp_observed,        \* the elements ResourcePreloader's IntersectionObserver observes
    rp_listeners,       \* the event types the behaviour-based preloading listens to
    rp_routeCalls,      \* the preloadRoute calls the behaviour listeners made
    ll_observed,        \* the elements LazyLoader's IntersectionObserver observes
    ll_loads,           \* LazyLoader: element -> number of loadImage/loadComponent calls
    dom_events,         \* the number of events dispatched since construction
    dom_last,           \* the last event dispatched
    dl_overridden,      \* DirectLoader.disableLazyLoading has replaced window.IntersectionObserver
    cs_loops,           \* the loadIdleModules and loadAllModules calls and the position of each
    nm_state,           \* NewsletterManager.state (isSubmitting, lastSubmissionTime, retryCount)
    nm_markup,          \* what the submit button of the newsletter form contains
    nm_now,             \* Date.now(), in seconds
    nm_calls,           \* the handleSubmit calls and how far each has run
    nm_fields,          \* the values of #newsletter-email, -frequency and -consent
    nm_errors,          \* the keys of NewsletterManager.state.validationErrors
    nm_button,          \* #newsletter-submit: its disabled property
    nm_view,            \* which of the form and #newsletter-success is displayed
    nm_message,         \* what #newsletter-message shows
    nm_document,        \* the document newsletter.js runs in: readyState, the elements it has
    nm_instance,        \* window.newsletterManagerInstance
    nm_handlers,        \* the handleSubmit listeners registered on #newsletter-form
    nm_records,         \* the mutation records queued for the MutationObserver
    nm_inits,           \* the initializeNewsletter calls page code made
    lv_input,           \* getSuggestions: its input
    lv_domains,         \* getSuggestions: its domains
    lv_suggestions,     \* getSuggestions: what it returned
    vm_window,          \* window.innerWidth and window.innerHeight
    vm_timeout,         \* ViewportManager: the resize timer is pending
    vm_state,           \* ViewportManager.currentBreakpoint and .orientation
    vm_classes,         \* the bp-* and orientation-* classes of document.body
    vm_events,          \* the viewport:* events dispatched on the document
    pm_storage,         \* localStorage: the parsed 'performanceReports' item
    pm_generated        \* the reports PerformanceMonitor.generateReport made, in order

ml_vars == <<ml_loadedModules, ml_loadingModules, ml_moduleCache, ml_scripts, ml_calls>>
cs_vars == <<cs_moduleRegistry, cs_loadedModules, cs_failedModules, cs_loadingPromises,
             cs_scripts, cs_calls, cs_critical>>
rp_vars == <<rp_links, rp_head, rp_resourceHints, rp_preloadQueue, rp_preloadedResources,
             rp_strategy, rp_connection>>
\* the triggers: observers, listeners and the events dispatched to them
tr_vars == <<ml_observed, ml_listeners, cs_setup, cs_observed, cs_listeners, cs_links,
             cs_requests,
             rp_observed, rp_listeners, rp_routeCalls, ll_observed, ll_loads,
             dom_events, dom_last>>
nm_vars == <<nm_state, nm_markup, nm_now, nm_calls>>
\* the newsletter form and what it displays
nf_vars == <<nm_fields, nm_errors, nm_button, nm_view, nm_message>>
\* the initialisation of the newsletter script
ni_vars == <<nm_document, nm_instance, nm_handlers, nm_records, nm_inits>>
lv_vars == <<lv_input, lv_domains, lv_suggestions>>
vm_vars == <<vm_window, vm_timeout, vm_state, vm_classes, vm_events>>
pm_vars == <<pm_storage, pm_generated>>
page_vars == <<ni_vars, lv_vars, vm_vars, pm_vars>>
\* DirectLoader, the loops of the CodeSplitter, the NewsletterManager, the
\* ViewportManager and the PerformanceMonitor
ext_vars == <<dl_overridden, cs_loops, nm_vars, nf_vars, page_vars>>

(***************************************************************************)
(* Bounds of the model.                                                    *)
(***************************************************************************)
\* loadModule calls page code makes on the ModuleLoader, beyond the constructor's
ML_MaxCalls == 3
\* loadModule calls page code makes on the CodeSplitter, beyond loadCriticalModules'
CS_MaxCalls == 2
\* loadModule calls page code makes on both loaders together, when both run
Loaders_MaxCalls == 2
\* link elements the ResourcePreloader creates after its constructor
RP_MaxAdds == 2

(***************************************************************************)
(*                             ModuleLoader                                *)
(***************************************************************************)
\* The identifiers the loader is asked for: the three it names itself.
ML_Srcs == {"/js/viewport-manager.js", "/js/lazy-loader.js", "/js/newsletter.js"}

\* preloadCriticalModules: the list of critical modules
ML_criticalModules == <<"/js/viewport-manager.js">>

ML_getModuleStatus(src) ==
    IF src \in ml_loadedModules THEN "loaded"
    ELSE IF ml_loadingModules[src] # 0 THEN "loading"
    ELSE "not-loaded"

\* A loader whose first test never finds the module loaded.
ML_isLoaded_Never(src) == FALSE
\* loadModule's first test: the module is already loaded
ML_isLoaded(src) == src \in ml_loadedModules

\* A loader whose second test never finds the pending promise.
ML_isLoading_Never(src) == FALSE
\* loadModule's second test: a load of the module is pending
ML_isLoading(src) == ml_loadingModules[src] # 0

\* createLoadingPromise: a new script element, appended to document.head,
\* its promise pending and its timeout armed.
ML_createLoadingPromise(src) ==
    Append(ml_scripts, [src |-> src, promise |-> "pending", timer |-> TRUE,
                        fired |-> FALSE, attached |-> TRUE])

\* A catch branch that forgets to release the pending slot.
ML_catch_KeepSlot(src) == ml_loadingModules
\* loadModule's catch branch: the pending slot is released
ML_catch(src) == [ml_loadingModules EXCEPT ![src] = 0]

\* The synchronous part of loadModule(src), up to its await.
ML_loadModule(src) ==
    /\ Len(ml_calls) < Len(ML_criticalModules) + ML_MaxCalls
    /\ IF ML_isLoaded(src)
         THEN /\ ml_calls' = Append(ml_calls, [src |-> src, promise |-> 0,
                                               created |-> FALSE, st |-> "resolved"])
              /\ UNCHANGED <<ml_loadedModules, ml_loadingModules, ml_moduleCache, ml_scripts>>
       ELSE IF ML_isLoading(src)
         THEN /\ ml_calls' = Append(ml_calls, [src |-> src, promise |-> ml_loadingModules[src],
                                               created |-> FALSE, st |-> "pending"])
              /\ UNCHANGED <<ml_loadedModules, ml_loadingModules, ml_moduleCache, ml_scripts>>
       ELSE /\ ml_scripts' = ML_createLoadingPromise(src)
            /\ ml_loadingModules' = [ml_loadingModules EXCEPT ![src] = Len(ml_scripts) + 1]
            /\ ml_calls' = Append(ml_calls, [src |-> src, promise |-> Len(ml_scripts) + 1,
                                             created |-> TRUE, st |-> "pending"])
            /\ UNCHANGED <<ml_loadedModules, ml_moduleCache>>

\* Every call that awaits promise s settles with it.
ML_settleCalls(s, outcome) ==
    [i \in 1..Len(ml_calls) |->
        IF ml_calls[i].promise = s /\ ml_calls[i].st = "pending"
        THEN [ml_calls[i] EXCEPT !.st = outcome] ELSE ml_calls[i]]

\* script.onload: the timeout is cleared and the promise resolved with the
\* script; the call that created the promise then records the module.  On
\* a promise the timeout already rejected, resolve changes nothing.
ML_onload(s) ==
    /\ ~ml_scripts[s].fired
    /\ LET src == ml_scripts[s].src IN
       IF ml_scripts[s].promise = "pending"
       THEN /\ ml_scripts' = [ml_scripts EXCEPT ![s].fired = TRUE, ![s].timer = FALSE,
                                                ![s].promise = "fulfilled"]
            /\ ml_loadedModules' = ml_loadedModules \cup {src}
            /\ ml_moduleCache' = [ml_moduleCache EXCEPT ![src] = s]
            /\ ml_loadingModules' = [ml_loadingModules EXCEPT ![src] = 0]
            /\ ml_calls' = ML_settleCalls(s, "resolved")
       ELSE /\ ml_scripts' = [ml_scripts EXCEPT ![s].fired = TRUE, ![s].timer = FALSE]
            /\ UNCHANGED <<ml_loadedModules, ml_loadingModules, ml_moduleCache, ml_calls>>

\* The promise of script s is rejected (by onerror or by the timeout) and
\* loadModule's catch branch runs.
ML_reject(s) ==
    /\ ml_loadingModules' = ML_catch(ml_scripts[s].src)
    /\ ml_calls' = ML_settleCalls(s, "rejected")
    /\ UNCHANGED <<ml_loadedModules, ml_moduleCache>>

\* script.onerror
ML_onerror(s) ==
    /\ ~ml_scripts[s].fired
    /\ IF ml_scripts[s].promise = "pending"
       THEN /\ ml_scripts' = [ml_scripts EXCEPT ![s].fired = TRUE, ![s].timer = FALSE,
                                                ![s].promise = "rejected"]
            /\ ML_reject(s)
       ELSE /\ ml_scripts' = [ml_scripts EXCEPT ![s].fired = TRUE, ![s].timer = FALSE]
            /\ UNCHANGED <<ml_loadedModules, ml_loadingModules, ml_moduleCache, ml_calls>>

\* A loader without the timeout.
ML_timeout_Never(s) == FALSE
\* The setTimeout callback of createLoadingPromise: neither event came in time.
ML_timeout(s) ==
    /\ ml_scripts[s].timer
    /\ ml_scripts' = [ml_scripts EXCEPT ![s].timer = FALSE, ![s].promise = "rejected"]
    /\ ML_reject(s)

\* The state the constructor leaves: init() has called preloadCriticalModules,
\* which has called loadModule on the first critical module and awaits it.
ML_Init ==
    /\ ml_loadedModules = {}
    /\ ml_moduleCache = [x \in ML_Srcs |-> 0]
    /\ ml_scripts = <<[src |-> ML_criticalModules[1], promise |-> "pending", timer |-> TRUE,
                       fired |-> FALSE, attached |-> TRUE]>>
    /\ ml_loadingModules = [x \in ML_Srcs |-> IF x = ML_criticalModules[1] THEN 1 ELSE 0]
    /\ ml_calls = <<[src |-> ML_criticalModules[1], promise |-> 1,
                     created |-> TRUE, st |-> "pending"]>>


(***************************************************************************)
(*                             CodeSplitter                                *)
(***************************************************************************)
\* registerModules: the registry the constructor builds, in insertion order.
\* performance-analytics names a dependency that is not registered.
CS_registerModules ==
    << [name |-> "viewport-manager", path |-> "/js/viewport-manager.js",
        priority |-> "critical", dependencies |-> <<>>, size |-> 15 * 1024,
        loadTrigger |-> "none"],
       [name |-> "matrix-animation", path |-> "/js/matrix.js",
        priority |-> "critical", dependencies |-> <<>>, size |-> 25 * 1024,
        loadTrigger |-> "none"],
       [name |-> "newsletter", path |-> "/js/newsletter.js",
        priority |-> "high", dependencies |-> <<>>, size |-> 35 * 1024,
        loadTrigger |-> "interaction"],
       [name |-> "lazy-loader", path |-> "/js/lazy-loader.js",
        priority |-> "medium", dependencies |-> <<>>, size |-> 20 * 1024,
        loadTrigger |-> "scroll"],
       [name |-> "performance-analytics", path |-> "/js/performance-analytics.js",
        priority |-> "low", dependencies |-> <<"performance-monitor">>, size |-> 30 * 1024,
        loadTrigger |-> "idle"] >>

\* moduleRegistry is a public Map of the exported singleton: the registry
\* after the page has registered the dependency performance-analytics
\* declares (window.codeSplitter.moduleRegistry.set('performance-monitor', ...)).
CS_registryWithMonitor ==
    Append(CS_registerModules,
           [name |-> "performance-monitor", path |-> "/js/performance-monitor.js",
            priority |-> "low", dependencies |-> <<>>, size |-> 30 * 1024,
            loadTrigger |-> "none"])

CS_Registries == {CS_registerModules, CS_registryWithMonitor}

\* The registry after the page has registered performance-monitor as a
\* module that itself depends on performance-analytics: the two modules
\* name each other.
CS_registryWithCycle ==
    Append(CS_registerModules,
           [name |-> "performance-monitor", path |-> "/js/performance-monitor.js",
            priority |-> "low", dependencies |-> <<"performance-analytics">>,
            size |-> 30 * 1024, loadTrigger |-> "none"])

\* The names loadModule is called with.
CS_Names == {CS_registryWithMonitor[i].name : i \in 1..Len(CS_registryWithMonitor)}

\* The registry after the page has also registered a module of its own with
\* two dependencies and a declared size above the budget of its priority.
CS_registryWithDashboard ==
    Append(CS_registryWithMonitor,
           [name |-> "analytics-dashboard", path |-> "/js/analytics-dashboard.js",
            priority |-> "low", dependencies |-> <<"performance-monitor", "lazy-loader">>,
            size |-> 600 * 1024, loadTrigger |-> "none"])

\* The identifiers the methods of that page are called with; the last one is
\* not registered.
CS_ApiNames == {"analytics-dashboard", "performance-monitor", "lazy-loader", "comments"}

\* The keys loadingPromises can have.
CS_AllNames == CS_Names \cup {"analytics-dashboard"}

\* this.budgets
CS_budgets == [critical |-> 50 * 1024, high |-> 100 * 1024,
               medium |-> 200 * 1024, low |-> 500 * 1024]

\* A budget check that never finds a module too large.
CS_checkPerformanceBudget_Always(config) == TRUE
\* checkPerformanceBudget
CS_checkPerformanceBudget(config) == config.size <= CS_budgets[config.priority]

\* moduleRegistry.get(moduleName) is defined
CS_registered(m) == \E i \in 1..Len(cs_moduleRegistry) : cs_moduleRegistry[i].name = m

\* moduleRegistry.get(moduleName)
CS_config(m) ==
    cs_moduleRegistry[CHOOSE i \in 1..Len(cs_moduleRegistry) : cs_moduleRegistry[i].name = m]

\* loadCriticalModules: the names of the critical modules, in registration order
CS_criticalModules ==
    LET isCritical(e) == e.priority = "critical"
        entries == SelectSeq(cs_moduleRegistry, isCritical)
    IN  [i \in 1..Len(entries) |-> entries[i].name]

CS_getModuleStatus(m) ==
    IF m \in cs_loadedModules THEN "loaded"
    ELSE IF cs_loadingPromises[m] # 0 THEN "loading"
    ELSE IF m \in cs_failedModules THEN "failed"
    ELSE "not-loaded"

\* The state a synchronous run of loadModule reads and writes.
CS_state == [calls |-> cs_calls, scripts |-> cs_scripts, loading |-> cs_loadingPromises]

\* createModuleLoadingPromise: a warning if the module exceeds its budget,
\* then a new script element appended to document.head, whose promise
\* becomes the loadingPromises entry of the module.
CS_createModuleLoadingPromise(S, m) ==
    [S EXCEPT !.scripts = Append(@, [mod |-> m, promise |-> "pending", attached |-> TRUE,
                                     warned |-> ~CS_checkPerformanceBudget(CS_config(m))]),
              !.loading = [@ EXCEPT ![m] = Len(S.scripts) + 1]]

CS_newCall(S, m, parent, pc, script, st) ==
    [S EXCEPT !.calls = Append(@, [mod |-> m, parent |-> parent, pc |-> pc,
                                   script |-> script, st |-> st])]

\* The nested loadModule calls the engine runs before it throws
\* RangeError: Maximum call stack size exceeded
CS_MaxStack == 3

RECURSIVE CS_stackDepth(_, _)
\* The loadModule calls on the stack when a call is made from call parent:
\* dep => this.loadModule(dep) runs inside the synchronous part of its caller.
CS_stackDepth(S, parent) ==
    IF parent = 0 THEN 0 ELSE 1 + CS_stackDepth(S, S.calls[parent].parent)

RECURSIVE CS_loadModuleSync(_, _, _)
RECURSIVE CS_loadDependencies(_, _, _, _)

\* The synchronous part of loadModule(m), up to its first await: the tests in
\* the order of the code, then either the await of Promise.all over the
\* dependencies (each requested by a nested loadModule call) or, with no
\* dependencies, the creation of the script.
\* A call made when the stack is exhausted throws the RangeError instead
\* (an async function: its promise is rejected).
CS_loadModuleSync(S, m, parent) ==
    IF CS_stackDepth(S, parent) >= CS_MaxStack
      THEN CS_newCall(S, m, parent, "done", 0, "rejected")
    ELSE IF ~CS_registered(m)
      THEN CS_newCall(S, m, parent, "done", 0, "rejected")
    ELSE IF S.loading[m] # 0
      THEN CS_newCall(S, m, parent, "follow", S.loading[m], "pending")
    ELSE IF m \in cs_loadedModules
      THEN CS_newCall(S, m, parent, "done", 0, "resolved")
    ELSE IF Len(CS_config(m).dependencies) > 0
      THEN CS_loadDependencies(CS_newCall(S, m, parent, "deps", 0, "pending"),
                               CS_config(m).dependencies, 1, Len(S.calls) + 1)
    ELSE CS_newCall(CS_createModuleLoadingPromise(S, m), m, parent, "load",
                    Len(S.scripts) + 1, "pending")

\* config.dependencies.map(dep => this.loadModule(dep)), from the k-th on
CS_loadDependencies(S, deps, k, parent) ==
    IF k > Len(deps) THEN S
    ELSE CS_loadDependencies(CS_loadModuleSync(S, deps[k], parent), deps, k + 1, parent)

CS_CallIds == 1..Len(cs_calls)
CS_ScriptIds == 1..Len(cs_scripts)
\* A Promise.all over no promise at all.
CS_children_None(c) == {}
\* The calls config.dependencies.map made for call c
CS_children(c) == {k \in CS_CallIds : cs_calls[k].parent = c}

\* A Promise.all that settles with the first dependency to settle.
CS_depsSettled_Any(c) ==
    /\ cs_calls[c].pc = "deps"
    /\ \E k \in {j \in 1..Len(cs_calls) : cs_calls[j].parent = c} : cs_calls[k].st # "pending"
\* Promise.all over the dependencies of call c has settled: one of them was
\* rejected, or all of them are resolved.
CS_depsSettled(c) ==
    /\ cs_calls[c].pc = "deps"
    /\ \/ \E k \in CS_children(c) : cs_calls[k].st = "rejected"
       \/ \A k \in CS_children(c) : cs_calls[k].st = "resolved"

\* loadCriticalModules can go on: the call it awaits has settled.
CS_criticalReady ==
    /\ cs_critical.st = "running"
    /\ cs_calls[cs_critical.call].st # "pending"

\* A promise reaction is queued: no other task runs before it.
\* loadIdleModules or loadAllModules waits at "await this.loadModule(moduleName)"
\* and the awaited call has settled.
CS_loopReady(l) ==
    /\ cs_loops[l].st = "running"
    /\ cs_calls[cs_loops[l].call].st # "pending"

CS_microtaskPending ==
    \/ CS_criticalReady
    \/ \E c \in CS_CallIds : CS_depsSettled(c)
    \/ \E l \in 1..Len(cs_loops) : CS_loopReady(l)

\* Calls made by page code (not by loadCriticalModules, not for a dependency).
CS_pageCalls == {c \in CS_CallIds : cs_calls[c].parent = 0}

\* loadModule(m) called by page code.
CS_loadModule(m) ==
    /\ ~CS_microtaskPending
    /\ Cardinality(CS_pageCalls) < cs_critical.i + CS_MaxCalls
    /\ LET S == CS_loadModuleSync(CS_state, m, 0) IN
       /\ cs_calls' = S.calls
       /\ cs_scripts' = S.scripts
       /\ cs_loadingPromises' = S.loading
    /\ UNCHANGED <<cs_moduleRegistry, cs_loadedModules, cs_failedModules, cs_critical>>

\* loadModule after "await Promise.all(...)": a rejected dependency rejects
\* the call; otherwise the script is created and awaited.
CS_afterDependencies(c) ==
    /\ CS_depsSettled(c)
    /\ IF \E k \in CS_children(c) : cs_calls[k].st = "rejected"
       THEN /\ cs_calls' = [cs_calls EXCEPT ![c].pc = "done", ![c].st = "rejected"]
            /\ UNCHANGED <<cs_scripts, cs_loadingPromises>>
       ELSE LET S == CS_createModuleLoadingPromise(CS_state, cs_calls[c].mod) IN
            /\ cs_scripts' = S.scripts
            /\ cs_loadingPromises' = S.loading
            /\ cs_calls' = [cs_calls EXCEPT ![c].pc = "load", ![c].script = Len(cs_scripts) + 1]
    /\ UNCHANGED <<cs_moduleRegistry, cs_loadedModules, cs_failedModules, cs_critical>>

\* Only the call that created the script settles with it.
CS_settleCalls_CreatorOnly(s, outcome) ==
    [i \in 1..Len(cs_calls) |->
        IF cs_calls[i].script = s /\ cs_calls[i].pc = "load"
        THEN [cs_calls[i] EXCEPT !.pc = "done", !.st = outcome] ELSE cs_calls[i]]
\* The calls that settle with the promise of script s: the one that created
\* it and those that returned it from loadingPromises.
CS_settleCalls(s, outcome) ==
    [i \in CS_CallIds |->
        IF cs_calls[i].script = s /\ cs_calls[i].st = "pending"
        THEN [cs_calls[i] EXCEPT !.pc = "done", !.st = outcome] ELSE cs_calls[i]]

\* The load event of script s: cleanup detaches the script, the promise
\* resolves and the try branch of the call that created it runs.
CS_onLoad(s) ==
    /\ ~CS_microtaskPending
    /\ cs_scripts[s].promise = "pending"
    /\ cs_scripts' = [cs_scripts EXCEPT ![s].promise = "fulfilled", ![s].attached = FALSE]
    /\ cs_loadedModules' = cs_loadedModules \cup {cs_scripts[s].mod}
    /\ cs_loadingPromises' = [cs_loadingPromises EXCEPT ![cs_scripts[s].mod] = 0]
    /\ cs_calls' = CS_settleCalls(s, "resolved")
    /\ UNCHANGED <<cs_moduleRegistry, cs_failedModules, cs_critical>>

\* The error event of script s: cleanup, the promise rejects and the catch
\* branch of the call that created it runs.
CS_onError(s) ==
    /\ ~CS_microtaskPending
    /\ cs_scripts[s].promise = "pending"
    /\ cs_scripts' = [cs_scripts EXCEPT ![s].promise = "rejected", ![s].attached = FALSE]
    /\ cs_failedModules' = cs_failedModules \cup {cs_scripts[s].mod}
    /\ cs_loadingPromises' = [cs_loadingPromises EXCEPT ![cs_scripts[s].mod] = 0]
    /\ cs_calls' = CS_settleCalls(s, "rejected")
    /\ UNCHANGED <<cs_moduleRegistry, cs_loadedModules, cs_critical>>

\* loadCriticalModules after "await this.loadModule(moduleName)": a rejection
\* ends the loop; otherwise the next critical module is requested.
CS_loadCriticalModules ==
    /\ CS_criticalReady
    /\ IF cs_calls[cs_critical.call].st = "rejected"
       THEN /\ cs_critical' = [cs_critical EXCEPT !.st = "failed"]
            /\ UNCHANGED <<cs_calls, cs_scripts, cs_loadingPromises>>
       ELSE IF cs_critical.i = Len(CS_criticalModules)
       THEN /\ cs_critical' = [cs_critical EXCEPT !.st = "done"]
            /\ UNCHANGED <<cs_calls, cs_scripts, cs_loadingPromises>>
       ELSE LET S == CS_loadModuleSync(CS_state, CS_criticalModules[cs_critical.i + 1], 0) IN
            /\ cs_calls' = S.calls
            /\ cs_scripts' = S.scripts
            /\ cs_loadingPromises' = S.loading
            /\ cs_critical' = [cs_critical EXCEPT !.i = @ + 1, !.call = Len(cs_calls) + 1]
    /\ UNCHANGED <<cs_moduleRegistry, cs_loadedModules, cs_failedModules>>

\* The state the constructor leaves: the registry is built and
\* loadCriticalModules has requested the first critical module.
CS_constructed ==
    /\ cs_loadedModules = {}
    /\ cs_failedModules = {}
    /\ cs_scripts = <<[mod |-> "viewport-manager", promise |-> "pending", attached |-> TRUE,
                       warned |-> FALSE]>>
    /\ cs_loadingPromises = [m \in CS_AllNames |-> IF m = "viewport-manager" THEN 1 ELSE 0]
    /\ cs_calls = <<[mod |-> "viewport-manager", parent |-> 0, pc |-> "load",
                     script |-> 1, st |-> "pending"]>>
    /\ cs_critical = [i |-> 1, call |-> 1, st |-> "running"]

\* The CodeSplitter after its constructor, on a page with either registry
CS_Init ==
    /\ cs_moduleRegistry \in CS_Registries
    /\ CS_constructed


(***************************************************************************)
(*                           ResourcePreloader                             *)
(***************************************************************************)
\* this.priorities
RP_priorities == [critical |-> 1, high |-> 2, medium |-> 3, low |-> 4]

RP_allPriorities == <<"critical", "high", "medium", "low">>

\* The key of a hint, `${relation}-${url}`: the relations are such that two
\* keys are equal exactly when relation and url are.
RP_key(rel, url) == <<rel, url>>

\* key.includes('critical'): no relation contains the word, so the test is
\* on the url.  Of the urls of the model only this one contains it.
RP_includesCritical(key) == key[2] \in {"/css/critical.css"}

\* The state of a preloader: what its methods read and write.
RP_state ==
    [links |-> rp_links, head |-> rp_head, hints |-> rp_resourceHints,
     queue |-> rp_preloadQueue, preloaded |-> rp_preloadedResources,
     strategy |-> rp_strategy]

\* resourceHints.has(key), without the guard
RP_has_Never(R, key) == FALSE
\* resourceHints.has(key)
RP_has(R, key) == key \in DOMAIN R.hints

\* document.createElement('link') with its rel, url and the priority it was
\* requested with
RP_createLink(R, rel, url, as, priority) ==
    [R EXCEPT !.links = Append(@, [rel |-> rel, url |-> url, as |-> as,
                                   priority |-> priority])]

\* document.head.appendChild(link); resourceHints.set(key, link)
RP_attach(R, key, link) ==
    [R EXCEPT !.head = Append(SelectSeq(@, LAMBDA x : x # link), link),
              !.hints = [k \in DOMAIN @ \cup {key} |-> IF k = key THEN link ELSE @[k]]]

RP_addDNSPrefetch(R, hostname) ==
    IF RP_has(R, RP_key("dns-prefetch", hostname)) THEN R
    ELSE RP_attach(RP_createLink(R, "dns-prefetch", hostname, "none", "none"),
                   RP_key("dns-prefetch", hostname), Len(R.links) + 1)

RP_addPreconnect(R, origin) ==
    IF RP_has(R, RP_key("preconnect", origin)) THEN R
    ELSE RP_attach(RP_createLink(R, "preconnect", origin, "none", "none"),
                   RP_key("preconnect", origin), Len(R.links) + 1)

RP_addPreload(R, href, as, priority) ==
    IF RP_has(R, RP_key("preload", href)) THEN R
    ELSE LET R1 == RP_attach(RP_createLink(R, "preload", href, as, priority),
                             RP_key("preload", href), Len(R.links) + 1)
         IN  [R1 EXCEPT !.preloaded = @ \cup {href}]

\* A flush that leaves the queue in its order.
RP_sortByPriority_None(queue) == queue
\* queue.sort((a, b) => priorities[a.priority] - priorities[b.priority]): a
\* stable sort by rank, the entries of one rank in their queue order
RP_sortByPriority(queue) ==
    LET ofRank(r) == SelectSeq(queue, LAMBDA item : RP_priorities[item.priority] = r)
    IN  ofRank(1) \o ofRank(2) \o ofRank(3) \o ofRank(4)

RP_includes(seq, x) == \E i \in 1..Len(seq) : seq[i] = x

RECURSIVE RP_attachQueued(_, _)
\* queue.forEach(item => { if (!resourceHints.has(key)) { append; set } })
RP_attachQueued(R, queue) ==
    IF queue = <<>> THEN R
    ELSE LET item == Head(queue)
             key == RP_key("prefetch", item.href)
         IN  RP_attachQueued(IF RP_has(R, key) THEN R ELSE RP_attach(R, key, item.link),
                             Tail(queue))

RP_processPreloadQueue(R, allowedPriorities) ==
    LET allowed(item) == RP_includes(allowedPriorities, item.priority)
        queue == RP_sortByPriority(SelectSeq(R.queue, allowed))
        R1 == RP_attachQueued(R, queue)
    IN  [R1 EXCEPT !.queue = SelectSeq(R.queue, LAMBDA item : ~allowed(item))]

RP_addPrefetch(R, href, as, priority) ==
    IF RP_has(R, RP_key("prefetch", href)) THEN R
    ELSE LET R1 == RP_createLink(R, "prefetch", href, as, priority)
             R2 == [R1 EXCEPT !.queue = Append(@, [href |-> href, as |-> as,
                                                   priority |-> priority,
                                                   link |-> Len(R.links) + 1])]
         IN  RP_processPreloadQueue(R2, RP_allPriorities)

\* The keys clearNonCriticalPreloads removes.
RP_isNonCriticalKey(key) ==
    \/ key[1] = "prefetch"
    \/ key[1] = "preload" /\ ~RP_includesCritical(key)

\* A clearNonCriticalPreloads that removes the elements and keeps the keys.
RP_clearNonCriticalPreloads_KeepKeys(R) ==
    LET removed == {R.hints[k] : k \in {j \in DOMAIN R.hints : RP_isNonCriticalKey(j)}}
    IN  [R EXCEPT !.head = SelectSeq(@, LAMBDA x : x \notin removed)]
\* clearNonCriticalPreloads: link.remove() and resourceHints.delete(key) for
\* every prefetch key and every preload key without the word 'critical'
RP_clearNonCriticalPreloads(R) ==
    LET gone == {k \in DOMAIN R.hints : RP_isNonCriticalKey(k)}
        removed == {R.hints[k] : k \in gone}
    IN  [R EXCEPT !.head = SelectSeq(@, LAMBDA x : x \notin removed),
                  !.hints = [k \in DOMAIN @ \ gone |-> @[k]]]

RP_setConservativeStrategy(R) ==
    RP_clearNonCriticalPreloads([R EXCEPT !.strategy = "conservative"])

RP_setModerateStrategy(R) ==
    RP_processPreloadQueue([R EXCEPT !.strategy = "moderate"], <<"critical", "high">>)

RP_setAggressiveStrategy(R) ==
    RP_processPreloadQueue([R EXCEPT !.strategy = "aggressive"], RP_allPriorities)

\* An updateStrategy that looks at effectiveType only.
RP_updateStrategy_TypeOnly(R, c) ==
    IF c.effectiveType = "slow-2g" \/ c.effectiveType = "2g"
      THEN RP_setConservativeStrategy(R)
    ELSE IF c.effectiveType = "3g"
      THEN RP_setModerateStrategy(R)
    ELSE RP_setAggressiveStrategy(R)
\* updateStrategy of setupConnectionObserver, on the reading c
RP_updateStrategy(R, c) ==
    IF c.saveData \/ c.effectiveType = "slow-2g" \/ c.effectiveType = "2g"
      THEN RP_setConservativeStrategy(R)
    ELSE IF c.effectiveType = "3g"
      THEN RP_setModerateStrategy(R)
    ELSE RP_setAggressiveStrategy(R)

\* getRouteResources
RP_getRouteResources(routePath) ==
    CASE routePath = "/" ->
           << [href |-> "/js/newsletter.js", as |-> "script", priority |-> "high"],
              [href |-> "/css/newsletter.css", as |-> "style", priority |-> "medium"] >>
      [] routePath = "/posts" ->
           << [href |-> "/js/lazy-loader.js", as |-> "script", priority |-> "high"],
              [href |-> "/css/posts.css", as |-> "style", priority |-> "medium"] >>
      [] routePath = "/about" ->
           << [href |-> "/js/contact-form.js", as |-> "script", priority |-> "medium"] >>
      [] OTHER -> <<>>

RECURSIVE RP_prefetchAll(_, _)
\* routeResources.forEach(resource => this.addPrefetch(...))
RP_prefetchAll(R, resources) ==
    IF resources = <<>> THEN R
    ELSE RP_prefetchAll(RP_addPrefetch(R, Head(resources).href, Head(resources).as,
                                       Head(resources).priority),
                        Tail(resources))

RP_preloadRoute(R, routePath) == RP_prefetchAll(R, RP_getRouteResources(routePath))

\* setupResourceHints
RP_setupResourceHints(R) ==
    LET R1 == RP_addDNSPrefetch(R, "fonts.googleapis.com")
        R2 == RP_addDNSPrefetch(R1, "fonts.gstatic.com")
        R3 == RP_addPreconnect(R2, "https://fonts.googleapis.com")
        R4 == RP_addPreconnect(R3, "https://fonts.gstatic.com")
        R5 == RP_addPreload(R4, "/js/module-loader.js", "script", "critical")
        R6 == RP_addPreload(R5, "/js/viewport-manager.js", "script", "critical")
        R7 == RP_addPreload(R6, "/js/matrix.js", "script", "critical")
        R8 == RP_addPrefetch(R7, "/js/newsletter.js", "script", "high")
        R9 == RP_addPrefetch(R8, "/js/lazy-loader.js", "script", "medium")
    IN  RP_addPrefetch(R9, "/css/newsletter.css", "style", "medium")

\* preloadCriticalResources, on a page without img[data-hero]
RP_preloadCriticalResources(R) ==
    RP_addPreload(RP_addPreload(R, "/css/style.css", "style", "critical"),
                  "https://fonts.googleapis.com/css2?family=VT323&display=swap",
                  "style", "high")

\* The readings of navigator.connection
RP_Readings ==
    [effectiveType : {"slow-2g", "2g", "3g", "4g"}, saveData : BOOLEAN]

\* 'connection' in navigator is false
RP_noConnection == [effectiveType |-> "absent", saveData |-> FALSE]

\* constructor and init(), with navigator.connection as given
RP_constructed(connection) ==
    LET R0 == [links |-> <<>>, head |-> <<>>, hints |-> <<>>, queue |-> <<>>,
               preloaded |-> {}, strategy |-> "undefined"]
        R1 == RP_preloadCriticalResources(RP_setupResourceHints(R0))
    IN  IF connection = RP_noConnection THEN R1 ELSE RP_updateStrategy(R1, connection)

\* getStrategy
RP_getStrategy == IF rp_strategy = "undefined" THEN "moderate" ELSE rp_strategy

\* The requests page code and the observers make after construction:
\* preloadImage/preloadScript/preloadStyle and preloadElementResources
RP_PreloadInputs ==
    { [href |-> "/img/post.jpg", as |-> "image", priority |-> "medium"],
      [href |-> "/css/critical.css", as |-> "style", priority |-> "low"],
      [href |-> "/js/matrix.js", as |-> "script", priority |-> "critical"] }

RP_RouteInputs == {"/", "/posts", "/about", "/contact"}

RP_HostInputs == {"fonts.gstatic.com", "cdn.example.com"}

RP_OriginInputs == {"https://fonts.gstatic.com", "https://cdn.example.com"}

\* The preloader becomes the state R.
RP_becomes(R) ==
    /\ rp_links' = R.links
    /\ rp_head' = R.head
    /\ rp_resourceHints' = R.hints
    /\ rp_preloadQueue' = R.queue
    /\ rp_preloadedResources' = R.preloaded
    /\ rp_strategy' = R.strategy

\* The links created so far, beyond those of a constructor on a connection
\* that removes nothing, stay within the bound.
RP_mayAdd == Len(rp_links) < Len(RP_constructed(RP_noConnection).links) + RP_MaxAdds

RP_pageAddDNSPrefetch(hostname) ==
    /\ RP_mayAdd
    /\ RP_becomes(RP_addDNSPrefetch(RP_state, hostname))
    /\ UNCHANGED rp_connection

RP_pageAddPreconnect(origin) ==
    /\ RP_mayAdd
    /\ RP_becomes(RP_addPreconnect(RP_state, origin))
    /\ UNCHANGED rp_connection

RP_pageAddPreload(x) ==
    /\ RP_mayAdd
    /\ RP_becomes(RP_addPreload(RP_state, x.href, x.as, x.priority))
    /\ UNCHANGED rp_connection

RP_pagePreloadRoute(routePath) ==
    /\ Len(rp_links) + Len(RP_getRouteResources(routePath))
          <= Len(RP_constructed(RP_noConnection).links) + RP_MaxAdds
    /\ RP_becomes(RP_preloadRoute(RP_state, routePath))
    /\ UNCHANGED rp_connection

\* The change event of navigator.connection, with the new reading c
RP_connectionChange(c) ==
    /\ rp_connection # RP_noConnection
    /\ rp_connection' = c
    /\ RP_becomes(RP_updateStrategy(RP_state, c))

RP_Init ==
    /\ rp_connection \in {RP_noConnection} \cup RP_Readings
    /\ LET R == RP_constructed(rp_connection) IN
       /\ rp_links = R.links
       /\ rp_head = R.head
       /\ rp_resourceHints = R.hints
       /\ rp_preloadQueue = R.queue
       /\ rp_preloadedResources = R.preloaded
       /\ rp_strategy = R.strategy

(***************************************************************************)
(*       The document, its events, and the triggers of the loaders         *)
(***************************************************************************)
\* events dispatched to the document and to the observers after construction
DOM_MaxEvents == 4

DOM_interactionEvents == {"mousedown", "touchstart", "keydown"}

\* The elements of the page with a data-modules attribute; each names one module.
DOM_moduleElements == {"section-news", "section-posts"}

\* element.dataset.modules.split(',') with each name trimmed
DOM_dataModules(e) ==
    IF e = "section-news" THEN <<"/js/newsletter.js">> ELSE <<"/js/lazy-loader.js">>

\* The elements of the page matching [data-preload] or img[data-src]: an
\* image to be lazy-loaded, a section that lists a stylesheet, and an image
\* whose data-preload attribute is not JSON.
DOM_preloadElements ==
    { [id |-> "img-post", tagName |-> "IMG", src |-> "/img/post.jpg", preload |-> "absent"],
      [id |-> "section-hero", tagName |-> "SECTION", src |-> "", preload |-> "list"],
      [id |-> "img-banner", tagName |-> "IMG", src |-> "/img/banner.jpg",
       preload |-> "malformed"] }

\* JSON.parse(element.dataset.preload) of the section
DOM_preloadList ==
    << [href |-> "/css/critical.css", as |-> "style", priority |-> "low"] >>

\* The elements matching img[data-src] or [data-lazy]
DOM_lazyElements ==
    { [id |-> "img-post", tagName |-> "IMG"],
      [id |-> "img-banner", tagName |-> "IMG"],
      [id |-> "newsletter-widget", tagName |-> "DIV"] }

\* The targets of mouseover and focusin: a link to a route of the site, a
\* link to another host, and an element outside every link.
DOM_hoverTargets ==
    { [id |-> "a-about", link |-> TRUE, sameHost |-> TRUE, href |-> "/about"],
      [id |-> "a-posts", link |-> TRUE, sameHost |-> TRUE, href |-> "/posts"],
      [id |-> "a-extern", link |-> TRUE, sameHost |-> FALSE, href |-> "https://example.com/"],
      [id |-> "p-text", link |-> FALSE, sameHost |-> FALSE, href |-> ""] }

DOM_noEvent == [type |-> "none", target |-> "none", on |-> "none", hit |-> FALSE]

\* One event is dispatched: to the document, or by an observer to its
\* callback.  hit: the entry is intersecting; for an event of the document,
\* a listener of the loaders acts on it.
DOM_dispatch(type, target, on, hit) ==
    /\ dom_events < DOM_MaxEvents
    /\ dom_events' = dom_events + 1
    /\ dom_last' = [type |-> type, target |-> target, on |-> on, hit |-> hit]

\* ---- ModuleLoader ----
\* setupLazyLoading: the elements the observer is given
ML_setupLazyLoading == DOM_moduleElements

\* setupInteractionPreloading: the events preloadOnInteraction is added to
ML_setupInteractionPreloading == DOM_interactionEvents

\* preloadInteractiveModules: the list of interactive modules
ML_interactiveModules == <<"/js/lazy-loader.js">>

\* The callback of setupLazyLoading's observer, given one entry.
ML_onIntersection(e, isIntersecting) ==
    /\ e \in ml_observed
    /\ DOM_dispatch("intersection", e, "ModuleLoader", isIntersecting)
    /\ IF isIntersecting
       THEN /\ ML_loadModule(DOM_dataModules(e)[1])
            /\ ml_observed' = ml_observed \ {e}
       ELSE UNCHANGED <<ml_vars, ml_observed>>
    /\ UNCHANGED <<cs_vars, rp_vars, ml_listeners, cs_setup, cs_observed, cs_listeners,
                   cs_links, rp_observed, rp_listeners, rp_routeCalls, ll_observed, ll_loads,
                   cs_requests, ext_vars>>

\* A listener that stays registered after the first interaction.
ML_removeListeners_Keep == ml_listeners
\* interactionEvents.forEach(event => document.removeEventListener(...))
ML_removeListeners == ml_listeners \ DOM_interactionEvents

\* preloadOnInteraction of the ModuleLoader, if it listens to the event
ML_preloadOnInteraction(type) ==
    IF type \in ml_listeners
    THEN /\ ML_loadModule(ML_interactiveModules[1])
         /\ ml_listeners' = ML_removeListeners
    ELSE UNCHANGED <<ml_vars, ml_listeners>>

\* ---- CodeSplitter ----
\* preloadModule(moduleName): a modulepreload link for a registered module
CS_preloadModule(links, m) ==
    IF ~CS_registered(m) THEN links ELSE Append(links, m)

RECURSIVE CS_preloadAll(_, _)
CS_preloadAll(links, names) ==
    IF names = <<>> THEN links
    ELSE CS_preloadAll(CS_preloadModule(links, Head(names)), Tail(names))

\* preloadInteractiveModules: preloadModule for every module whose
\* loadTrigger is 'interaction'
CS_preloadInteractiveModules ==
    LET isInteractive(c) == c.loadTrigger = "interaction"
        entries == SelectSeq(cs_moduleRegistry, isInteractive)
    IN  CS_preloadAll(cs_links, [i \in 1..Len(entries) |-> entries[i].name])

\* setupInteractionPreloading, called by page code (init does not call it)
CS_setupInteractionPreloading ==
    /\ "interaction" \notin cs_setup
    /\ cs_setup' = cs_setup \cup {"interaction"}
    /\ cs_listeners' = DOM_interactionEvents
    /\ UNCHANGED <<ml_vars, cs_vars, rp_vars, ml_observed, ml_listeners, cs_observed,
                   cs_links, rp_observed, rp_listeners, rp_routeCalls, ll_observed,
                   ll_loads, dom_events, dom_last,
                   cs_requests, ext_vars>>

\* setupViewportBasedLoading, called by page code (init does not call it)
CS_setupViewportBasedLoading ==
    /\ "viewport" \notin cs_setup
    /\ cs_setup' = cs_setup \cup {"viewport"}
    /\ cs_observed' = DOM_moduleElements
    /\ UNCHANGED <<ml_vars, cs_vars, rp_vars, ml_observed, ml_listeners, cs_listeners,
                   cs_links, rp_observed, rp_listeners, rp_routeCalls, ll_observed,
                   ll_loads, dom_events, dom_last,
                   cs_requests, ext_vars>>

\* The callback of setupViewportBasedLoading's observer, given one entry.
CS_onIntersection(e, isIntersecting) ==
    /\ e \in cs_observed
    /\ DOM_dispatch("intersection", e, "CodeSplitter", isIntersecting)
    /\ IF isIntersecting
       THEN /\ CS_loadModule(DOM_dataModules(e)[1])
            /\ cs_observed' = cs_observed \ {e}
       ELSE UNCHANGED <<cs_vars, cs_observed>>
    /\ UNCHANGED <<ml_vars, rp_vars, ml_observed, ml_listeners, cs_setup, cs_listeners,
                   cs_links, rp_observed, rp_listeners, rp_routeCalls, ll_observed, ll_loads,
                   cs_requests, ext_vars>>

\* preloadOnInteraction of the CodeSplitter, if it listens to the event
CS_preloadOnInteraction(type) ==
    IF type \in cs_listeners
    THEN /\ cs_links' = CS_preloadInteractiveModules
         /\ cs_listeners' = cs_listeners \ DOM_interactionEvents
    ELSE UNCHANGED <<cs_links, cs_listeners>>

\* A mousedown, touchstart or keydown event on the document: every
\* registered preloadOnInteraction runs, ModuleLoader's first.
DOM_interaction(type) ==
    /\ DOM_dispatch(type, "document", "document", type \in ml_listeners \cup cs_listeners)
    /\ ML_preloadOnInteraction(type)
    /\ CS_preloadOnInteraction(type)
    /\ UNCHANGED <<cs_vars, rp_vars, ml_observed, cs_setup, cs_observed, rp_observed,
                   rp_listeners, rp_routeCalls, ll_observed, ll_loads,
                   cs_requests, ext_vars>>

\* ---- ResourcePreloader ----
\* setupIntersectionObserver: the elements the observer is given
RP_setupIntersectionObserver == {el.id : el \in DOM_preloadElements}

RECURSIVE RP_preloadList(_, _)
\* resources.forEach(resource => this.addPreload(href, as, priority || 'medium'))
RP_preloadList(R, resources) ==
    IF resources = <<>> THEN R
    ELSE RP_preloadList(RP_addPreload(R, Head(resources).href, Head(resources).as,
                                      Head(resources).priority),
                        Tail(resources))

\* preloadElementResources(element), on elements without a background
\* image: the preloader afterwards, and whether JSON.parse threw.
RP_preloadElementResources(R, el) ==
    LET R1 == IF el.tagName = "IMG" /\ el.src # ""
              THEN RP_addPreload(R, el.src, "image", "medium") ELSE R
    IN  IF el.preload = "absent" THEN [state |-> R1, threw |-> FALSE]
        ELSE IF el.preload = "malformed" THEN [state |-> R1, threw |-> TRUE]
        ELSE [state |-> RP_preloadList(R1, DOM_preloadList), threw |-> FALSE]

\* The callback of setupIntersectionObserver's observer, given one entry.
\* An exception of preloadElementResources leaves the callback before
\* observer.unobserve(element).
RP_onIntersection(el, isIntersecting) ==
    /\ el.id \in rp_observed
    /\ DOM_dispatch("intersection", el.id, "ResourcePreloader", isIntersecting)
    /\ IF isIntersecting
       THEN LET r == RP_preloadElementResources(RP_state, el) IN
            /\ RP_becomes(r.state)
            /\ rp_observed' = IF r.threw THEN rp_observed ELSE rp_observed \ {el.id}
       ELSE UNCHANGED <<rp_links, rp_head, rp_resourceHints, rp_preloadQueue,
                        rp_preloadedResources, rp_strategy, rp_observed>>
    /\ UNCHANGED <<ml_vars, cs_vars, rp_connection, ml_observed, ml_listeners, cs_setup,
                   cs_observed, cs_listeners, cs_links, cs_requests, rp_listeners,
                   rp_routeCalls, ll_observed, ll_loads, ext_vars>>

\* setupBehaviorBasedPreloading, called by page code (init does not call it)
RP_setupBehaviorBasedPreloading ==
    /\ rp_listeners = {}
    /\ rp_listeners' = {"mouseover", "focusin"}
    /\ UNCHANGED <<ml_vars, cs_vars, rp_vars, ml_observed, ml_listeners, cs_setup,
                   cs_observed, cs_listeners, cs_links, cs_requests, rp_observed,
                   rp_routeCalls, ll_observed, ll_loads, dom_events, dom_last, ext_vars>>

\* A mouseover or focusin event on target t: the listener of that type, if
\* registered, calls preloadRoute for a link to the same host.
DOM_hover(type, t) ==
    /\ DOM_dispatch(type, t.id, "document", type \in rp_listeners /\ t.link /\ t.sameHost)
    /\ IF type \in rp_listeners /\ t.link /\ t.sameHost
       THEN /\ RP_becomes(RP_preloadRoute(RP_state, t.href))
            /\ rp_routeCalls' = rp_routeCalls + 1
       ELSE UNCHANGED <<rp_links, rp_head, rp_resourceHints, rp_preloadQueue,
                        rp_preloadedResources, rp_strategy, rp_routeCalls>>
    /\ UNCHANGED <<ml_vars, cs_vars, rp_connection, ml_observed, ml_listeners, cs_setup,
                   cs_observed, cs_listeners, cs_links, cs_requests, rp_observed,
                   rp_listeners, ll_observed, ll_loads, ext_vars>>

\* ---- LazyLoader (src/js/lazy-loader.js), DirectLoader (part_002) ----
\* The elements matching img[data-src] or [data-lazy] when LazyLoader looks
\* for them: DirectLoader.loadAllImages, which runs with disableLazyLoading,
\* has removed data-src from the images of the page.
LL_matching ==
    IF dl_overridden THEN {el \in DOM_lazyElements : el.tagName # "IMG"}
    ELSE DOM_lazyElements

\* observeElements: observer.observe for every matching element
LL_observeElements == ll_observed \cup {el.id : el \in LL_matching}

\* The loads observeElements triggers itself: with the IntersectionObserver
\* of disableLazyLoading, observe(target) first calls the callback with an
\* intersecting entry for the target and then the observe of the real
\* observer; the unobserve handleIntersection ends with finds the target
\* not yet observed.
LL_loadsOnObserve ==
    [e \in DOMAIN ll_loads |->
        IF dl_overridden /\ e \in {el.id : el \in LL_matching}
        THEN ll_loads[e] + 1 ELSE ll_loads[e]]

\* handleIntersection, given one entry: loadImage or loadComponent, then unobserve
LL_handleIntersection(el, isIntersecting) ==
    /\ el.id \in ll_observed
    /\ DOM_dispatch("intersection", el.id, "LazyLoader", isIntersecting)
    /\ IF isIntersecting
       THEN /\ ll_loads' = [ll_loads EXCEPT ![el.id] = @ + 1]
            /\ ll_observed' = ll_observed \ {el.id}
       ELSE UNCHANGED <<ll_loads, ll_observed>>
    /\ UNCHANGED <<ml_vars, cs_vars, rp_vars, ml_observed, ml_listeners, cs_setup,
                   cs_observed, cs_listeners, cs_links, cs_requests, rp_observed,
                   rp_listeners, rp_routeCalls, ext_vars>>

\* The 'contentLoaded' listener: window.lazyLoader.observeNewElements()
LL_observeNewElements ==
    /\ DOM_dispatch("contentLoaded", "document", "document", FALSE)
    /\ ll_observed' = LL_observeElements
    /\ ll_loads' = LL_loadsOnObserve
    /\ UNCHANGED <<ml_vars, cs_vars, rp_vars, ml_observed, ml_listeners, cs_setup,
                   cs_observed, cs_listeners, cs_links, cs_requests, rp_observed,
                   rp_listeners, rp_routeCalls, ext_vars>>

\* new LazyLoader(): init() observes the elements of the page
LL_Init ==
    /\ ll_observed = {el.id : el \in LL_matching}
    /\ ll_loads = [e \in {el.id : el \in DOM_lazyElements} |->
                      IF dl_overridden /\ e \in {el.id : el \in LL_matching}
                      THEN 1 ELSE 0]

\* ---- CodeSplitter: importModule and preloadModule called by page code ----
\* importModule and preloadModule calls page code makes on the CodeSplitter
CS_MaxRequests == 1

CS_importing == {r \in 1..Len(cs_requests) : cs_requests[r].st = "importing"}

CS_mayRequest == Len(cs_requests) < CS_MaxRequests

\* preloadModule(m) called by page code: it returns undefined in every case
CS_pagePreloadModule(m) ==
    /\ CS_mayRequest
    /\ cs_links' = CS_preloadModule(cs_links, m)
    /\ cs_requests' = Append(cs_requests, [method |-> "preloadModule", mod |-> m,
                                           st |-> "returned", call |-> 0])
    /\ UNCHANGED <<ml_vars, cs_vars, rp_vars, ml_observed, ml_listeners, cs_setup,
                   cs_observed, cs_listeners, rp_observed, rp_listeners, rp_routeCalls,
                   ll_observed, ll_loads, dom_events, dom_last, ext_vars>>

\* importModule(m) called by page code, up to "await import(config.path)"
CS_importModule(m) ==
    /\ CS_mayRequest
    /\ ~CS_microtaskPending
    /\ cs_requests' = Append(cs_requests,
                             [method |-> "importModule", mod |-> m, call |-> 0,
                              st |-> IF CS_registered(m) THEN "importing" ELSE "rejected"])
    /\ UNCHANGED <<ml_vars, cs_vars, rp_vars, ml_observed, ml_listeners, cs_setup,
                   cs_observed, cs_listeners, cs_links, rp_observed, rp_listeners,
                   rp_routeCalls, ll_observed, ll_loads, dom_events, dom_last, ext_vars>>

\* import(config.path) is fulfilled: importModule returns the module
CS_importFulfilled(r) ==
    /\ r \in CS_importing
    /\ ~CS_microtaskPending
    /\ cs_requests' = [cs_requests EXCEPT ![r].st = "resolved"]
    /\ UNCHANGED <<ml_vars, cs_vars, rp_vars, ml_observed, ml_listeners, cs_setup,
                   cs_observed, cs_listeners, cs_links, rp_observed, rp_listeners,
                   rp_routeCalls, ll_observed, ll_loads, dom_events, dom_last, ext_vars>>

\* import(config.path) is rejected: the catch branch falls back to
\* loadModule and importModule settles as that call does
CS_importRejected(r) ==
    /\ r \in CS_importing
    /\ ~CS_microtaskPending
    /\ LET S == CS_loadModuleSync(CS_state, cs_requests[r].mod, 0) IN
       /\ cs_calls' = S.calls
       /\ cs_scripts' = S.scripts
       /\ cs_loadingPromises' = S.loading
    /\ cs_requests' = [cs_requests EXCEPT ![r].st = "fallback", ![r].call = Len(cs_calls) + 1]
    /\ UNCHANGED <<ml_vars, rp_vars, cs_moduleRegistry, cs_loadedModules, cs_failedModules,
                   cs_critical, ml_observed, ml_listeners, cs_setup, cs_observed,
                   cs_listeners, cs_links, rp_observed, rp_listeners, rp_routeCalls,
                   ll_observed, ll_loads, dom_events, dom_last, ext_vars>>

\* ---- CodeSplitter: loadIdleModules and loadAllModules ----
\* loadAllModules calls page code makes on the CodeSplitter
CS_MaxLoops == 1

\* loadIdleModules: the modules whose loadTrigger is 'idle', in registration order
CS_idleModules ==
    LET isIdle(c) == c.loadTrigger = "idle"
        entries == SelectSeq(cs_moduleRegistry, isIdle)
    IN  [i \in 1..Len(entries) |-> entries[i].name]

\* loadAllModules: Array.from(this.moduleRegistry.keys())
CS_allModules ==
    [i \in 1..Len(cs_moduleRegistry) |-> cs_moduleRegistry[i].name]

CS_loopModules(method) ==
    IF method = "loadIdleModules" THEN CS_idleModules ELSE CS_allModules

\* A loop that requests the modules that are loaded as well.
CS_nextInLoop_NoSkip(method, i) ==
    IF i < Len(CS_loopModules(method)) THEN i + 1 ELSE 0
\* The next module the for loop of the method requests after position i
\* (0: the loop ends). loadAllModules skips the modules that are loaded.
CS_nextInLoop(method, i) ==
    LET names == CS_loopModules(method)
        wanted == {j \in (i + 1)..Len(names) :
                      method = "loadAllModules" => names[j] \notin cs_loadedModules}
    IN  IF wanted = {} THEN 0 ELSE CHOOSE j \in wanted : \A k \in wanted : j <= k

\* The for loop from position i on: it returns if no module is left, and
\* otherwise runs loadModule up to its first await and waits for it.
CS_runLoop(l, method, i) ==
    LET j == CS_nextInLoop(method, i)
        S == CS_loadModuleSync(CS_state, CS_loopModules(method)[j], 0)
        loops == IF l > Len(cs_loops)
                 THEN Append(cs_loops, [method |-> method, i |-> 0, call |-> 0,
                                        st |-> "running"])
                 ELSE cs_loops
    IN  IF j = 0
        THEN /\ cs_loops' = [loops EXCEPT ![l].st = "resolved"]
             /\ UNCHANGED <<cs_calls, cs_scripts, cs_loadingPromises>>
        ELSE /\ cs_calls' = S.calls
             /\ cs_scripts' = S.scripts
             /\ cs_loadingPromises' = S.loading
             /\ cs_loops' = [loops EXCEPT ![l].i = j, ![l].call = Len(cs_calls) + 1]

\* loadIdleModules(), up to its first await
CS_loadIdleModules ==
    /\ CS_runLoop(Len(cs_loops) + 1, "loadIdleModules", 0)
    /\ UNCHANGED <<cs_moduleRegistry, cs_loadedModules, cs_failedModules, cs_critical>>

\* loadAllModules() called by page code, up to its first await
CS_loadAllModules ==
    /\ ~CS_microtaskPending
    /\ Cardinality({l \in 1..Len(cs_loops) : cs_loops[l].method = "loadAllModules"})
          < CS_MaxLoops
    /\ CS_runLoop(Len(cs_loops) + 1, "loadAllModules", 0)
    /\ UNCHANGED <<cs_moduleRegistry, cs_loadedModules, cs_failedModules, cs_critical>>
    /\ UNCHANGED <<ml_vars, rp_vars, tr_vars, dl_overridden, nm_vars,
                   nf_vars, page_vars>>

\* The loop after "await this.loadModule(moduleName)": loadIdleModules
\* rejects with the rejection of the call; loadAllModules catches it and
\* goes on with the next module.
CS_afterLoad(l) ==
    /\ CS_loopReady(l)
    /\ IF /\ cs_calls[cs_loops[l].call].st = "rejected"
          /\ cs_loops[l].method = "loadIdleModules"
       THEN /\ cs_loops' = [cs_loops EXCEPT ![l].st = "rejected"]
            /\ UNCHANGED <<cs_calls, cs_scripts, cs_loadingPromises>>
       ELSE CS_runLoop(l, cs_loops[l].method, cs_loops[l].i)
    /\ UNCHANGED <<cs_moduleRegistry, cs_loadedModules, cs_failedModules, cs_critical>>
    /\ UNCHANGED <<ml_vars, rp_vars, tr_vars, dl_overridden, nm_vars,
                   nf_vars, page_vars>>

\* setupIdleLoading, called by page code (init does not call it):
\* requestIdleCallback, or setTimeout(..., 2000) where it is missing
CS_setupIdleLoading ==
    /\ "idle" \notin cs_setup
    /\ cs_setup' = cs_setup \cup {"idle"}
    /\ UNCHANGED <<ml_vars, cs_vars, rp_vars, ml_observed, ml_listeners, cs_observed,
                   cs_listeners, cs_links, cs_requests, rp_observed, rp_listeners,
                   rp_routeCalls, ll_observed, ll_loads, dom_events, dom_last, ext_vars>>

\* The idle callback (or the timer) is registered and has not run
CS_idlePending ==
    /\ "idle" \in cs_setup
    /\ \A l \in 1..Len(cs_loops) : cs_loops[l].method # "loadIdleModules"

\* The browser becomes idle, or 2000 ms have passed: the callback of
\* setupIdleLoading runs once, if it was registered.
DOM_idle ==
    /\ ~CS_microtaskPending
    /\ DOM_dispatch("idle", "window", "window", CS_idlePending)
    /\ IF CS_idlePending
       THEN CS_loadIdleModules
       ELSE UNCHANGED <<cs_vars, cs_loops>>
    /\ UNCHANGED <<ml_vars, rp_vars, ml_observed, ml_listeners, cs_setup, cs_observed,
                   cs_listeners, cs_links, cs_requests, rp_observed, rp_listeners,
                   rp_routeCalls, ll_observed, ll_loads, dl_overridden, nm_vars,
                   nf_vars, page_vars>>

\* ---- NewsletterManager ----
\* submit events of the newsletter form
NM_MaxSubmits == 3

\* seconds that pass after the page is loaded
NM_MaxTime == 6

\* "now - this.state.lastSubmissionTime < 5000", in seconds
NM_cooldown == 5

\* What #newsletter-submit contains: the .submit-text and .submit-loading
\* elements setLoading styles, or neither of them.
NM_Markups == {"complete", "no-submit-text"}

\* What #newsletter-email holds: nothing but blanks, a value validateEmail
\* refuses (the pattern, a typo suggestion or a disposable domain), or a
\* value it accepts.
NM_Emails == {"empty", "refused", "valid"}

\* form.reset(): the form as its markup has it, nothing filled in
NM_blankForm == [email |-> "empty", frequency |-> FALSE, consent |-> FALSE]

NM_Fields == [email : NM_Emails, frequency : BOOLEAN, consent : BOOLEAN]

\* validateEmail, validateFrequency, validateConsent: the keys of
\* validationErrors after the call
NM_validateEmail(errors, fields) ==
    IF fields.email = "valid" THEN errors \ {"email"} ELSE errors \cup {"email"}

NM_validateFrequency(errors, fields) ==
    IF fields.frequency THEN errors \ {"frequency"} ELSE errors \cup {"frequency"}

NM_validateConsent(errors, fields) ==
    IF fields.consent THEN errors \ {"consent"} ELSE errors \cup {"consent"}

\* validateForm: the three validations in turn; it returns true iff none
\* of them failed, that is iff no key is left.
NM_validateForm(errors, fields) ==
    NM_validateConsent(NM_validateFrequency(NM_validateEmail(errors, fields), fields), fields)

\* validateForm: the showError calls for the frequency and the consent
NM_validateFormMessage(message, fields) ==
    IF ~fields.consent THEN "consent"
    ELSE IF ~fields.frequency THEN "frequency"
    ELSE message

NM_isFormComplete(fields) ==
    fields.email # "empty" /\ fields.frequency /\ fields.consent

\* updateSubmitButtonState: the value it gives submitButton.disabled
NM_updateSubmitButtonState(errors, fields, isSubmitting) ==
    errors # {} \/ ~NM_isFormComplete(fields) \/ isSubmitting

\* new NewsletterManager() on a page that has the form: this.state of the
\* constructor, and init() ending in updateSubmitButtonState().  Date.now()
\* is beyond the cooldown when the page is loaded.
NM_constructed ==
    /\ nm_state = [isSubmitting |-> FALSE, lastSubmissionTime |-> 0, retryCount |-> 0]
    /\ nm_now = NM_cooldown
    /\ nm_calls = <<>>
    /\ nm_fields = NM_blankForm
    /\ nm_errors = {}
    /\ nm_button = NM_updateSubmitButtonState({}, NM_blankForm, FALSE)
    /\ nm_view = "form"
    /\ nm_message = "none"

\* A handleSubmit call waits at "await this.createGitHubIssue(formData)"
NM_awaiting == {c \in 1..Len(nm_calls) : nm_calls[c].st = "pending"}

\* A handleSubmit call: whether it passed validation and when, how far it
\* has run, and how its createGitHubIssue promise settles.
NM_call(started, st, issue) ==
    [started |-> started, st |-> st, issue |-> issue,
     at |-> IF started THEN nm_now ELSE 0]

\* setLoading(loading): submitText.style throws a TypeError if the button
\* has no .submit-text element
NM_setLoadingThrows == nm_markup = "no-submit-text"

\* The catch and finally blocks of handleSubmit: handleSubmissionError
\* counts the retry, then isSubmitting is reset.
NM_catchFinally(state) ==
    [state EXCEPT !.retryCount = @ + 1, !.isSubmitting = FALSE]

\* "if (this.state.isSubmitting) return"
NM_guarded(state) == state.isSubmitting

\* A 'submit' event of the form: handleSubmit up to its await.  onLine is
\* navigator.onLine, and configured tells whether page code has given the
\* manager the githubConfig that generateGitHubIssueUrl reads (the class
\* never sets it: without it createGitHubIssue rejects with a TypeError).
\* The second submit listener only calls preventDefault.
NM_handleSubmit(onLine, configured) ==
    /\ Len(nm_calls) < NM_MaxSubmits
    /\ NM_awaiting = {}
    /\ IF NM_guarded(nm_state)
         THEN /\ nm_calls' = Append(nm_calls, NM_call(FALSE, "resolved", "none"))
              /\ UNCHANGED <<nm_state, nm_errors, nm_button, nm_message>>
       ELSE IF nm_now - nm_state.lastSubmissionTime < NM_cooldown
         THEN /\ nm_calls' = Append(nm_calls, NM_call(FALSE, "resolved", "none"))
              /\ nm_message' = "wait"
              /\ UNCHANGED <<nm_state, nm_errors, nm_button>>
       ELSE LET errors == NM_validateForm(nm_errors, nm_fields)
                message == NM_validateFormMessage(nm_message, nm_fields)
                started == [nm_state EXCEPT !.isSubmitting = TRUE,
                                            !.lastSubmissionTime = nm_now]
            IN  /\ nm_errors' = errors
                /\ IF errors # {}
                     THEN /\ nm_calls' = Append(nm_calls, NM_call(FALSE, "resolved", "none"))
                          /\ nm_button' = NM_updateSubmitButtonState(errors, nm_fields, FALSE)
                          /\ nm_message' = message
                          /\ UNCHANGED nm_state
                   ELSE IF NM_setLoadingThrows
                     THEN /\ nm_state' = started
                          /\ nm_calls' = Append(nm_calls, NM_call(TRUE, "rejected", "none"))
                          /\ nm_button' = NM_updateSubmitButtonState(errors, nm_fields, FALSE)
                          /\ nm_message' = message
                   ELSE IF ~onLine
                     THEN /\ nm_state' = NM_catchFinally(started)
                          /\ nm_calls' = Append(nm_calls, NM_call(TRUE, "resolved", "none"))
                          /\ nm_button' = FALSE
                          /\ nm_message' = "failed"
                   ELSE /\ nm_state' = started
                        /\ nm_calls' = Append(nm_calls,
                               NM_call(TRUE, "pending",
                                       IF configured THEN "fulfilled" ELSE "rejected"))
                        /\ nm_button' = TRUE
                        /\ nm_message' = "none"
    /\ UNCHANGED <<nm_markup, nm_now, nm_fields, nm_view>>
    /\ UNCHANGED <<ml_vars, cs_vars, rp_vars, tr_vars, dl_overridden, cs_loops, page_vars>>

\* handleSubmit after "await this.createGitHubIssue(formData)": showSuccess
\* and retryCount = 0, or the catch block; then the finally block, whose
\* setLoading(false) enables the button.
NM_afterCreate(c) ==
    /\ c \in NM_awaiting
    /\ IF nm_calls[c].issue = "fulfilled"
         THEN /\ nm_state' = [nm_state EXCEPT !.retryCount = 0, !.isSubmitting = FALSE]
              /\ nm_view' = "success"
              /\ UNCHANGED nm_message
       ELSE /\ nm_state' = NM_catchFinally(nm_state)
            /\ nm_message' = "failed"
            /\ UNCHANGED nm_view
    /\ nm_button' = FALSE
    /\ nm_calls' = [nm_calls EXCEPT ![c].st = "resolved"]
    /\ UNCHANGED <<nm_markup, nm_now, nm_fields, nm_errors>>
    /\ UNCHANGED <<ml_vars, cs_vars, rp_vars, tr_vars, dl_overridden, cs_loops, page_vars>>

\* A 'pageshow' event with persisted set: resetForm()
NM_pageshow ==
    /\ NM_awaiting = {}
    /\ nm_state' = [nm_state EXCEPT !.isSubmitting = FALSE, !.retryCount = 0]
    /\ nm_fields' = NM_blankForm
    /\ nm_errors' = {}
    /\ nm_view' = "form"
    /\ nm_message' = "none"
    /\ nm_button' = NM_updateSubmitButtonState({}, NM_blankForm, FALSE)
    /\ UNCHANGED <<nm_markup, nm_now, nm_calls>>
    /\ UNCHANGED <<ml_vars, cs_vars, rp_vars, tr_vars, dl_overridden, cs_loops, page_vars>>

\* Time passes between two events
NM_tick(d) ==
    /\ NM_awaiting = {}
    /\ nm_now + d <= NM_cooldown + NM_MaxTime
    /\ nm_now' = nm_now + d
    /\ UNCHANGED <<nm_state, nm_markup, nm_calls, nf_vars>>
    /\ UNCHANGED <<ml_vars, cs_vars, rp_vars, tr_vars, dl_overridden, cs_loops, page_vars>>

\* What the user does to a field of the displayed form
NM_edits(changed) ==
    /\ NM_awaiting = {}
    /\ nm_view = "form"
    /\ nm_fields' = changed
    /\ nm_fields' # nm_fields
    /\ UNCHANGED <<nm_vars, nm_button, nm_view, nm_message>>
    /\ UNCHANGED <<ml_vars, cs_vars, rp_vars, tr_vars, dl_overridden, cs_loops, page_vars>>

\* An 'input' event of #newsletter-email: the listener calls
\* clearFieldError('email-error') with the id instead of the element, the
\* assignment to a property of a string throws in the strict code of a
\* class, and debouncedValidateEmail is never reached.
NM_input(email) ==
    /\ NM_edits([nm_fields EXCEPT !.email = email])
    /\ UNCHANGED nm_errors

\* A 'blur' event of #newsletter-email: validateEmail()
NM_blur ==
    /\ NM_awaiting = {}
    /\ nm_view = "form"
    /\ nm_errors' = NM_validateEmail(nm_errors, nm_fields)
    /\ UNCHANGED <<nm_vars, nm_fields, nm_button, nm_view, nm_message>>
    /\ UNCHANGED <<ml_vars, cs_vars, rp_vars, tr_vars, dl_overridden, cs_loops, page_vars>>

\* A 'change' event of #newsletter-frequency: validateFrequency()
NM_changeFrequency(chosen) ==
    /\ NM_edits([nm_fields EXCEPT !.frequency = chosen])
    /\ nm_errors' = NM_validateFrequency(nm_errors, nm_fields')

\* A 'change' event of #newsletter-consent: validateConsent()
NM_changeConsent(checked) ==
    /\ NM_edits([nm_fields EXCEPT !.consent = checked])
    /\ nm_errors' = NM_validateConsent(nm_errors, nm_fields')

\* ---- initializeNewsletter and the MutationObserver (src/js/newsletter.js) ----
\* initializeNewsletter calls page code makes
NI_MaxInits == 2

\* mutation records queued for one callback of the MutationObserver
NI_MaxRecords == 2

\* handleSubmit listeners on the form beyond which no element is added
NI_MaxHandlers == 3

\* The documents the script runs in: whether the parser is still at work,
\* whether #newsletter-form and #newsletter-message are there, and whether
\* the form has an action attribute.
NI_Documents ==
    [readyState : {"loading", "interactive"}, form : BOOLEAN, message : BOOLEAN,
     action : {FALSE}]

NI_completeDocument ==
    [readyState |-> "interactive", form |-> TRUE, message |-> TRUE, action |-> FALSE]

\* new NewsletterManager(): without the form init() returns at once; with
\* it, setupEventListeners registers handleSubmit and then setupAccessibility
\* dereferences this.messageContainer, which throws if the element is missing.
NI_construct(doc) ==
    IF ~doc.form THEN "unbound"
    ELSE IF ~doc.message THEN "throws"
    ELSE "bound"

\* initializeNewsletter() on S = [document, instance, handlers]
NI_initializeNewsletter(S) ==
    IF S.instance # "none" THEN S
    ELSE IF NI_construct(S.document) = "throws"
      THEN [S EXCEPT !.handlers = @ + 1, !.document.action = TRUE]
    ELSE IF NI_construct(S.document) = "bound"
      THEN [S EXCEPT !.handlers = @ + 1, !.instance = "bound"]
    ELSE [S EXCEPT !.instance = "unbound"]

NI_page == [document |-> nm_document, instance |-> nm_instance, handlers |-> nm_handlers]

NI_becomes(S) ==
    /\ nm_document' = S.document
    /\ nm_instance' = S.instance
    /\ nm_handlers' = S.handlers

\* The script has run in doc: initializeNewsletter is a DOMContentLoaded
\* listener while the document is loading and is called at once otherwise;
\* the MutationObserver observes document.body.
NI_scriptLoaded(doc) ==
    LET fresh == [document |-> doc, instance |-> "none", handlers |-> 0]
        S == IF doc.readyState = "loading" THEN fresh ELSE NI_initializeNewsletter(fresh)
    IN  /\ nm_document = S.document
        /\ nm_instance = S.instance
        /\ nm_handlers = S.handlers
        /\ nm_records = 0
        /\ nm_inits = 0

\* The 'DOMContentLoaded' event
NI_DOMContentLoaded ==
    /\ nm_document.readyState = "loading"
    /\ nm_records = 0
    /\ NI_becomes(NI_initializeNewsletter(
           [NI_page EXCEPT !.document.readyState = "interactive"]))
    /\ UNCHANGED <<nm_records, nm_inits>>
    /\ UNCHANGED <<ml_vars, cs_vars, rp_vars, tr_vars, dl_overridden, cs_loops, nm_vars,
                   nf_vars, lv_vars, vm_vars, pm_vars>>

\* Page code calls window.initializeNewsletter()
NI_pageInitialize ==
    /\ nm_inits < NI_MaxInits
    /\ nm_inits' = nm_inits + 1
    /\ NI_becomes(NI_initializeNewsletter(NI_page))
    /\ UNCHANGED nm_records
    /\ UNCHANGED <<ml_vars, cs_vars, rp_vars, tr_vars, dl_overridden, cs_loops, nm_vars,
                   nf_vars, lv_vars, vm_vars, pm_vars>>

\* The parser or page code adds an element below document.body: the form,
\* the message container, or some other element.
NI_mutation(added) ==
    /\ nm_records < NI_MaxRecords
    /\ nm_handlers + nm_records < NI_MaxHandlers
    /\ added = "form" => ~nm_document.form
    /\ added = "message" => ~nm_document.message
    /\ nm_document' = [nm_document EXCEPT
                          !.form = @ \/ added = "form",
                          !.message = @ \/ added = "message"]
    /\ nm_records' = nm_records + 1
    /\ UNCHANGED <<nm_instance, nm_handlers, nm_inits>>
    /\ UNCHANGED <<ml_vars, cs_vars, rp_vars, tr_vars, dl_overridden, cs_loops, nm_vars,
                   nf_vars, lv_vars, vm_vars, pm_vars>>

\* mutations.forEach(...): for each childList record, initializeNewsletter()
\* if the form is there and no instance is
RECURSIVE NI_forEach(_, _)
NI_forEach(S, records) ==
    IF records = 0 THEN S
    ELSE NI_forEach(IF S.document.form /\ S.instance = "none"
                    THEN NI_initializeNewsletter(S) ELSE S,
                    records - 1)

\* The callback of the MutationObserver, with the records queued so far
NI_mutationCallback ==
    /\ nm_records > 0
    /\ NI_becomes(NI_forEach(NI_page, nm_records))
    /\ nm_records' = 0
    /\ UNCHANGED nm_inits
    /\ UNCHANGED <<ml_vars, cs_vars, rp_vars, tr_vars, dl_overridden, cs_loops, nm_vars,
                   nf_vars, lv_vars, vm_vars, pm_vars>>

\* ---- getSuggestions, levenshteinDistance (src/js/newsletter.js) ----
\* Strings are sequences of characters.
\* the longest string given to getSuggestions
LV_MaxLen == 3

\* the longest list of domains given to getSuggestions
LV_MaxDomains == 2

LV_min(a, b) == IF a < b THEN a ELSE b

\* String.prototype.toLowerCase, character by character
LV_lowerChar(ch) ==
    IF ch = "A" THEN "a" ELSE IF ch = "G" THEN "g" ELSE ch

NM_toLowerCase(str) == [i \in 1..Len(str) |-> LV_lowerChar(str[i])]

\* The inner loop of levenshteinDistance without the substitution
RECURSIVE NM_matrixRow_NoSubstitution(_, _, _, _, _)
NM_matrixRow_NoSubstitution(str1, ch, above, row, j) ==
    IF Len(row) > Len(str1) THEN row
    ELSE LET cell == IF ch = str1[j]
                     THEN above[j]
                     ELSE LV_min(row[j] + 1, above[j + 1] + 1)
         IN  NM_matrixRow_NoSubstitution(str1, ch, above, Append(row, cell), j + 1)

\* Row i of the matrix (cells 0..j-1 of it in row, cell k at index k + 1),
\* filled from the row above as the inner loop of levenshteinDistance does;
\* the loop ends when j > str1.length, that is when the row is full
RECURSIVE NM_matrixRow(_, _, _, _, _)
NM_matrixRow(str1, ch, above, row, j) ==
    IF Len(row) > Len(str1) THEN row
    ELSE LET cell == IF ch = str1[j]
                     THEN above[j]
                     ELSE LV_min(above[j] + 1, LV_min(row[j] + 1, above[j + 1] + 1))
         IN  NM_matrixRow(str1, ch, above, Append(row, cell), j + 1)

\* Row i of the matrix: matrix[0][j] = j, matrix[i] = [i] and the loops
RECURSIVE NM_matrix(_, _, _)
NM_matrix(str1, str2, i) ==
    IF i = 0 THEN [k \in 1..(Len(str1) + 1) |-> k - 1]
    ELSE NM_matrixRow(str1, str2[i], NM_matrix(str1, str2, i - 1), <<i>>, 1)

\* levenshteinDistance(str1, str2): matrix[str2.length][str1.length]
NM_levenshteinDistance(str1, str2) ==
    NM_matrix(str1, str2, Len(str2))[Len(str1) + 1]

\* Array.prototype.sort with the comparator of getSuggestions (the
\* difference of the distances): a stable sort, here by insertion
RECURSIVE NM_insert(_, _, _)
NM_insert(inputLower, sorted, domain) ==
    IF sorted = <<>> THEN <<domain>>
    ELSE IF NM_levenshteinDistance(inputLower, domain)
              < NM_levenshteinDistance(inputLower, sorted[Len(sorted)])
      THEN Append(NM_insert(inputLower, SubSeq(sorted, 1, Len(sorted) - 1), domain),
                  sorted[Len(sorted)])
    ELSE Append(sorted, domain)

RECURSIVE NM_sort(_, _)
NM_sort(inputLower, domains) ==
    IF domains = <<>> THEN <<>>
    ELSE NM_insert(inputLower,
                   NM_sort(inputLower, SubSeq(domains, 1, Len(domains) - 1)),
                   domains[Len(domains)])

\* getSuggestions(input, domains)
NM_getSuggestions(input, domains) ==
    LET inputLower == NM_toLowerCase(input)
        near(domain) == LET distance == NM_levenshteinDistance(inputLower, domain)
                        IN  distance <= 2 /\ distance > 0
    IN  NM_sort(inputLower, SelectSeq(domains, near))

\* validateEmail: commonDomains
NM_commonDomains ==
    << <<"g","m","a","i","l",".","c","o","m">>,
       <<"y","a","h","o","o",".","c","o","m">>,
       <<"h","o","t","m","a","i","l",".","c","o","m">>,
       <<"o","u","t","l","o","o","k",".","c","o","m">> >>

\* The strings of at most n characters of an alphabet
LV_Strings(alphabet, n) == UNION {[1..k -> alphabet] : k \in 0..n}

\* What the user types after the @: short strings in either case, and
\* common domains typed exactly, in capitals or with a slip
LV_Inputs ==
    LV_Strings({"a", "b", "A"}, LV_MaxLen)
    \cup {NM_commonDomains[i] : i \in 1..Len(NM_commonDomains)}
    \cup { <<"G","m","a","i","l",".","c","o","m">>,
           <<"g","m","i","a","l",".","c","o","m">>,
           <<"g","m","a","i",".","c","o","m">>,
           <<"y","a","h","o","o",".","c","o">>,
           <<"h","o","t","m","a","l",".","c","o","m">>,
           <<"o","u","t","l","o","o","k",".","f","r">> }

\* The domains getSuggestions is given: lists of short lower-case strings,
\* and the list of validateEmail
LV_DomainLists ==
    LET Catalogue == { <<"a">>, <<"b","a">>, <<"a","b">>, <<"a","a","b">>,
                       <<"a","b","b">>, <<"b","b","b">> }
    IN  UNION {[1..k -> Catalogue] : k \in 0..LV_MaxDomains} \cup {NM_commonDomains}

\* No getSuggestions call has been made
LV_Idle ==
    /\ lv_input = <<>>
    /\ lv_domains = <<>>
    /\ lv_suggestions = <<"none">>

\* getSuggestions(lv_input, lv_domains) is called
LV_getSuggestions ==
    /\ lv_suggestions = <<"none">>
    /\ lv_suggestions' = NM_getSuggestions(lv_input, lv_domains)
    /\ UNCHANGED <<lv_input, lv_domains>>
    /\ UNCHANGED <<ml_vars, cs_vars, rp_vars, tr_vars, dl_overridden, cs_loops, nm_vars,
                   nf_vars, ni_vars, vm_vars, pm_vars>>

\* ---- ViewportManager (src/unnamed/part_001) ----
\* viewport:* events dispatched beyond which the window is not resized
VM_MaxEvents == 4

\* this.breakpoints
VM_breakpoints == [mobile |-> 480, tablet |-> 768, desktop |-> 1200, ultrawide |-> 1600]

\* The sizes the window takes
VM_Widths == {320, 480, 481, 768, 769, 1200, 1201, 1599, 1600, 1920}
VM_Heights == {400, 769, 1600}
VM_Windows == [width : VM_Widths, height : VM_Heights]

\* getBreakpoint without its test of the ultrawide breakpoint
VM_getBreakpoint_NoUltrawide(width) ==
    IF width <= VM_breakpoints.mobile THEN "mobile"
    ELSE IF width <= VM_breakpoints.tablet THEN "tablet"
    ELSE "desktop"

VM_getBreakpoint(width) ==
    IF width <= VM_breakpoints.mobile THEN "mobile"
    ELSE IF width <= VM_breakpoints.tablet THEN "tablet"
    ELSE IF width <= VM_breakpoints.desktop THEN "desktop"
    ELSE IF width >= VM_breakpoints.ultrawide THEN "ultrawide"
    ELSE "desktop"

\* The state of the manager and of the document: V = [state, classes, events]
\* updateBreakpoint(newBreakpoint)
VM_updateBreakpoint(V, newBreakpoint) ==
    [V EXCEPT !.classes = (IF V.state.currentBreakpoint # "null"
                           THEN @ \ {<<"bp", V.state.currentBreakpoint>>} ELSE @)
                          \cup {<<"bp", newBreakpoint>>},
              !.state.currentBreakpoint = newBreakpoint,
              !.events = Append(@, <<"breakpointchange", newBreakpoint>>)]

\* updateOrientation(newOrientation)
VM_updateOrientation(V, newOrientation) ==
    [V EXCEPT !.classes = (IF V.state.orientation # "null"
                           THEN @ \ {<<"orientation", V.state.orientation>>} ELSE @)
                          \cup {<<"orientation", newOrientation>>},
              !.state.orientation = newOrientation,
              !.events = Append(@, <<"orientationchange", newOrientation>>)]

\* handleResize() with the window as it is
VM_handleResize(V, window) ==
    LET newBreakpoint == VM_getBreakpoint(window.width)
        newOrientation == IF window.width > window.height THEN "landscape" ELSE "portrait"
        B == IF newBreakpoint # V.state.currentBreakpoint
             THEN VM_updateBreakpoint(V, newBreakpoint) ELSE V
    IN  IF newOrientation # B.state.orientation
        THEN VM_updateOrientation(B, newOrientation) ELSE B

VM_fresh ==
    [state |-> [currentBreakpoint |-> "null", orientation |-> "null"],
     classes |-> {}, events |-> <<>>]

VM_becomes(V) ==
    /\ vm_state' = V.state
    /\ vm_classes' = V.classes
    /\ vm_events' = V.events

\* new ViewportManager() in the window: init() calls handleResize()
VM_constructed(window) ==
    LET V == VM_handleResize(VM_fresh, window)
    IN  /\ vm_window = window
        /\ vm_timeout = {}
        /\ vm_state = V.state
        /\ vm_classes = V.classes
        /\ vm_events = V.events

\* The window is resized: the 'resize' listener restarts its timer
VM_resize(window) ==
    /\ Len(vm_events) < VM_MaxEvents
    /\ window # vm_window
    /\ vm_window' = window
    /\ vm_timeout' = vm_timeout \cup {"resize"}
    /\ UNCHANGED <<vm_state, vm_classes, vm_events>>
    /\ UNCHANGED <<ml_vars, cs_vars, rp_vars, tr_vars, dl_overridden, cs_loops, nm_vars,
                   nf_vars, ni_vars, lv_vars, pm_vars>>

\* An 'orientationchange' event: its listener starts a timer of its own
VM_orientationchange ==
    /\ vm_timeout' = vm_timeout \cup {"orientationchange"}
    /\ vm_timeout' # vm_timeout
    /\ UNCHANGED <<vm_window, vm_state, vm_classes, vm_events>>
    /\ UNCHANGED <<ml_vars, cs_vars, rp_vars, tr_vars, dl_overridden, cs_loops, nm_vars,
                   nf_vars, ni_vars, lv_vars, pm_vars>>

\* A timer fires: handleResize(), directly or through handleOrientationChange()
VM_timer(timer) ==
    /\ timer \in vm_timeout
    /\ vm_timeout' = vm_timeout \ {timer}
    /\ VM_becomes(VM_handleResize(
           [state |-> vm_state, classes |-> vm_classes, events |-> vm_events], vm_window))
    /\ UNCHANGED vm_window
    /\ UNCHANGED <<ml_vars, cs_vars, rp_vars, tr_vars, dl_overridden, cs_loops, nm_vars,
                   nf_vars, ni_vars, lv_vars, pm_vars>>

\* ---- PerformanceMonitor (src/unnamed/part_001) ----
\* reports generated, over all the visits of the page
PM_MaxReports == 12

\* "Keep only last 10 reports"
PM_keep == 10

\* storeReport keeping the first reports instead of the last
PM_storeReport_KeepFirst(reports, report) ==
    LET pushed == Append(reports, report)
    IN  IF Len(pushed) > PM_keep THEN SubSeq(pushed, 1, PM_keep) ELSE pushed

\* storeReport(report): the list it writes back to localStorage
PM_storeReport(reports, report) ==
    LET pushed == Append(reports, report)
    IN  IF Len(pushed) > PM_keep
        THEN SubSeq(pushed, Len(pushed) - PM_keep + 1, Len(pushed))
        ELSE pushed

\* localStorage holds no 'performanceReports' item, no report was generated
PM_Init ==
    /\ pm_generated = <<>>
    /\ pm_storage = <<>>

\* generateReport(), from collectLoadMetrics() or getReport(), on this or
\* on a later visit of the page: the report, with its timestamp and
\* whether its metrics make generateRecommendations recommend anything, is
\* stored.
PM_generateReport(recommended) ==
    LET report == [timestamp |-> Len(pm_generated) + 1, recommendations |-> recommended]
    IN  /\ Len(pm_generated) < PM_MaxReports
        /\ pm_generated' = Append(pm_generated, report)
        /\ pm_storage' = PM_storeReport(pm_storage, report)
        /\ UNCHANGED <<ml_vars, cs_vars, rp_vars, tr_vars, dl_overridden, cs_loops,
                       nm_vars, nf_vars, ni_vars, lv_vars, vm_vars>>

\* The rest of the page: the newsletter script has bound its manager to a
\* complete form, no suggestion is asked for, the ViewportManager is
\* constructed in a desktop window, and no report is stored.
PAGE_Init ==
    /\ NI_scriptLoaded(NI_completeDocument)
    /\ LV_Idle
    /\ VM_constructed([width |-> 1920, height |-> 769])
    /\ PM_Init

\* No IntersectionObserver override, no loop of the CodeSplitter, and a
\* newsletter form with the complete markup that nobody submits.
EXT_Init ==
    /\ dl_overridden = FALSE
    /\ cs_loops = <<>>
    /\ NM_constructed
    /\ PAGE_Init
    /\ nm_markup = "complete"

\* The triggers and the requests as the constructors leave them: the
\* ModuleLoader observes and listens, the ResourcePreloader and the
\* LazyLoader observe, the CodeSplitter has set up no trigger.
TR_Init ==
    /\ ml_observed = ML_setupLazyLoading
    /\ ml_listeners = ML_setupInteractionPreloading
    /\ cs_setup = {}
    /\ cs_observed = {}
    /\ cs_listeners = {}
    /\ cs_links = <<>>
    /\ cs_requests = <<>>
    /\ rp_observed = RP_setupIntersectionObserver
    /\ rp_listeners = {}
    /\ rp_routeCalls = 0
    /\ LL_Init
    /\ dom_events = 0
    /\ dom_last = DOM_noEvent

(***************************************************************************)
(*                           Specifications                                *)
(***************************************************************************)
vars == <<ml_vars, cs_vars, rp_vars, tr_vars, ext_vars>>

\* ModuleLoader alone
NextML ==
    \/ \E src \in ML_Srcs : ML_loadModule(src) /\ UNCHANGED <<cs_vars, rp_vars, tr_vars, ext_vars>>
    \/ \E s \in 1..Len(ml_scripts) : ML_onload(s) /\ UNCHANGED <<cs_vars, rp_vars, tr_vars, ext_vars>>
    \/ \E s \in 1..Len(ml_scripts) : ML_onerror(s) /\ UNCHANGED <<cs_vars, rp_vars, tr_vars, ext_vars>>
    \/ \E s \in 1..Len(ml_scripts) : ML_timeout(s) /\ UNCHANGED <<cs_vars, rp_vars, tr_vars, ext_vars>>

\* The other components as their constructors leave them, on a page whose
\* browser has no navigator.connection
RP_Idle == RP_Init /\ rp_connection = RP_noConnection
CS_Idle == CS_Init /\ cs_moduleRegistry = CS_registerModules

InitML ==
    /\ ML_Init
    /\ CS_Idle
    /\ RP_Idle
    /\ EXT_Init
    /\ TR_Init

SpecML == InitML /\ [][NextML]_vars

\* CodeSplitter alone
NextCS ==
    \/ \E m \in CS_Names : CS_loadModule(m) /\ UNCHANGED <<ml_vars, rp_vars, tr_vars, ext_vars>>
    \/ \E c \in CS_CallIds : CS_afterDependencies(c) /\ UNCHANGED <<ml_vars, rp_vars, tr_vars, ext_vars>>
    \/ \E s \in CS_ScriptIds : CS_onLoad(s) /\ UNCHANGED <<ml_vars, rp_vars, tr_vars, ext_vars>>
    \/ \E s \in CS_ScriptIds : CS_onError(s) /\ UNCHANGED <<ml_vars, rp_vars, tr_vars, ext_vars>>
    \/ CS_loadCriticalModules /\ UNCHANGED <<ml_vars, rp_vars, tr_vars, ext_vars>>

InitCS ==
    /\ CS_Init
    /\ ML_Init
    /\ RP_Idle
    /\ EXT_Init
    /\ TR_Init

SpecCS == InitCS /\ [][NextCS]_vars

\* Both script-injection loaders on one page
ML_pageCalls == Len(ml_calls) - Len(ML_criticalModules)

NextLoaders ==
    \/ \E src \in ML_Srcs :
          /\ ML_pageCalls + Cardinality(CS_pageCalls) - cs_critical.i < Loaders_MaxCalls
          /\ ML_loadModule(src) /\ UNCHANGED <<cs_vars, rp_vars, tr_vars, ext_vars>>
    \/ \E s \in 1..Len(ml_scripts) : ML_onload(s) /\ UNCHANGED <<cs_vars, rp_vars, tr_vars, ext_vars>>
    \/ \E s \in 1..Len(ml_scripts) : ML_onerror(s) /\ UNCHANGED <<cs_vars, rp_vars, tr_vars, ext_vars>>
    \/ \E s \in 1..Len(ml_scripts) : ML_timeout(s) /\ UNCHANGED <<cs_vars, rp_vars, tr_vars, ext_vars>>
    \/ \E m \in CS_Names :
          /\ ML_pageCalls + Cardinality(CS_pageCalls) - cs_critical.i < Loaders_MaxCalls
          /\ CS_loadModule(m) /\ UNCHANGED <<ml_vars, rp_vars, tr_vars, ext_vars>>
    \/ \E c \in CS_CallIds : CS_afterDependencies(c) /\ UNCHANGED <<ml_vars, rp_vars, tr_vars, ext_vars>>
    \/ \E s \in CS_ScriptIds : CS_onLoad(s) /\ UNCHANGED <<ml_vars, rp_vars, tr_vars, ext_vars>>
    \/ \E s \in CS_ScriptIds : CS_onError(s) /\ UNCHANGED <<ml_vars, rp_vars, tr_vars, ext_vars>>
    \/ CS_loadCriticalModules /\ UNCHANGED <<ml_vars, rp_vars, tr_vars, ext_vars>>

InitLoaders ==
    /\ ML_Init
    /\ CS_Init
    /\ RP_Idle
    /\ EXT_Init
    /\ TR_Init

\* ResourcePreloader alone
NextRP ==
    \/ \E h \in RP_HostInputs : RP_pageAddDNSPrefetch(h) /\ UNCHANGED <<ml_vars, cs_vars, tr_vars, ext_vars>>
    \/ \E o \in RP_OriginInputs : RP_pageAddPreconnect(o) /\ UNCHANGED <<ml_vars, cs_vars, tr_vars, ext_vars>>
    \/ \E x \in RP_PreloadInputs : RP_pageAddPreload(x) /\ UNCHANGED <<ml_vars, cs_vars, tr_vars, ext_vars>>
    \/ \E r \in RP_RouteInputs : RP_pagePreloadRoute(r) /\ UNCHANGED <<ml_vars, cs_vars, tr_vars, ext_vars>>
    \/ \E c \in RP_Readings : RP_connectionChange(c) /\ UNCHANGED <<ml_vars, cs_vars, tr_vars, ext_vars>>

InitRP ==
    /\ RP_Init
    /\ ML_Init
    /\ CS_Idle
    /\ EXT_Init
    /\ TR_Init

SpecRP == InitRP /\ [][NextRP]_vars

SpecLoaders == InitLoaders /\ [][NextLoaders]_vars

(***************************************************************************)
(*                      Properties of ModuleLoader                         *)
(***************************************************************************)
ML_CallIds == 1..Len(ml_calls)
ML_ScriptIds == 1..Len(ml_scripts)

\* C1: ModuleLoader: the loadModule(src) calls issued while an earlier call
\* for the same src is still unsettled share that call's pending load and
\* create no script element of their own; every promise has exactly one
\* script element, created by exactly one call; at most one load per src is
\* pending; and the calls sharing a load have the same outcome.
C1_SharedPendingLoad ==
    /\ \A i, j \in ML_CallIds :
          (i < j /\ ml_calls[i].src = ml_calls[j].src /\ ml_calls[i].st = "pending")
             => (ml_calls[j].promise = ml_calls[i].promise /\ ~ml_calls[j].created)
    /\ \A s \in ML_ScriptIds :
          Cardinality({i \in ML_CallIds : ml_calls[i].promise = s /\ ml_calls[i].created}) = 1
    /\ \A src \in ML_Srcs :
          Cardinality({s \in ML_ScriptIds : ml_scripts[s].src = src
                                            /\ ml_scripts[s].promise = "pending"}) <= 1
    /\ \A i, j \in ML_CallIds :
          (ml_calls[i].promise # 0 /\ ml_calls[i].promise = ml_calls[j].promise)
             => ml_calls[i].st = ml_calls[j].st

\* Two callers shared one pending load of a page-requested module and both
\* have settled with it.
C1_Witness ==
    \E i, j \in ML_CallIds :
        /\ i < j
        /\ ml_calls[i].promise # 0
        /\ ml_calls[i].promise = ml_calls[j].promise
        /\ ml_calls[i].st = "rejected" /\ ml_calls[j].st = "rejected"
        /\ \E k \in ML_CallIds : k > j /\ ml_calls[k].st = "resolved"

\* The promise of script s is rejected by this step.
ML_FailStep(s) == ml_scripts[s].promise = "pending" /\ ml_scripts'[s].promise = "rejected"

\* This step is a loadModule(src) call.
ML_CallStep(src) ==
    /\ Len(ml_calls') = Len(ml_calls) + 1
    /\ ml_calls'[Len(ml_calls')].src = src

\* C5: ModuleLoader: when a load of src fails (error event or timeout) every
\* caller awaiting it is rejected, src is no longer 'loading', the
\* bookkeeping of every other identifier is unchanged; and a loadModule(src)
\* made after a failure, while src is 'not-loaded', creates a new script
\* element and makes src 'loading' again.
C5_FailureReleasesSlot ==
    [][ /\ \A s \in ML_ScriptIds :
              ML_FailStep(s) =>
                 LET src == ml_scripts[s].src IN
                 /\ \A i \in ML_CallIds :
                        ml_calls[i].promise = s => ml_calls'[i].st = "rejected"
                 /\ ML_getModuleStatus(src)' = "not-loaded"
                 /\ ml_loadedModules' = ml_loadedModules
                 /\ \A y \in ML_Srcs \ {src} :
                        /\ ml_loadingModules'[y] = ml_loadingModules[y]
                        /\ ml_moduleCache'[y] = ml_moduleCache[y]
                        /\ ML_getModuleStatus(y)' = ML_getModuleStatus(y)
        /\ \A src \in ML_Srcs :
              ( /\ ML_CallStep(src)
                /\ ML_getModuleStatus(src) # "loaded"
                /\ \E s \in ML_ScriptIds : /\ ml_scripts[s].src = src
                                            /\ ml_scripts[s].promise = "rejected"
                /\ \A s \in ML_ScriptIds : ml_scripts[s].src = src
                                            => ml_scripts[s].promise # "pending" )
              => /\ Len(ml_scripts') = Len(ml_scripts) + 1
                 /\ ml_scripts'[Len(ml_scripts')].src = src
                 /\ ml_scripts'[Len(ml_scripts')].promise = "pending"
                 /\ ml_calls'[Len(ml_calls')].promise = Len(ml_scripts')
                 /\ ML_getModuleStatus(src)' = "loading" ]_vars

\* A load failed by timeout, a second attempt for the same src was started
\* and it failed by the error event.
C5_Witness ==
    \E s, t \in ML_ScriptIds :
        /\ s < t
        /\ ml_scripts[s].src = ml_scripts[t].src
        /\ ml_scripts[s].promise = "rejected" /\ ~ml_scripts[s].fired
        /\ ml_scripts[t].promise = "rejected" /\ ml_scripts[t].fired
        /\ ML_getModuleStatus(ml_scripts[s].src) = "not-loaded"

(***************************************************************************)
(*                      Properties of CodeSplitter                         *)
(***************************************************************************)
\* The script elements of module m whose load is pending.
CS_pendingScripts(m) ==
    {s \in CS_ScriptIds : cs_scripts[s].mod = m /\ cs_scripts[s].promise = "pending"}

\* C2: CodeSplitter: for every registered module, with or without
\* dependencies, at most one created-but-unsettled script element exists.
C2_AtMostOnePendingLoad ==
    \A m \in CS_Names : Cardinality(CS_pendingScripts(m)) <= 1

\* This step is a loadModule(m) call made by page code.
CS_CallStep(m) ==
    /\ Len(cs_calls') > Len(cs_calls)
    /\ cs_calls'[Len(cs_calls) + 1].mod = m
    /\ cs_calls'[Len(cs_calls) + 1].parent = 0
    /\ cs_critical' = cs_critical

\* This step settles the load of script s.
CS_SettleStep(s, outcome) ==
    cs_scripts[s].promise = "pending" /\ cs_scripts'[s].promise = outcome

\* C4: CodeSplitter: after a load of registered module X fails X is
\* 'failed'; a loadModule(X) on a 'failed' X makes it 'loading' once the
\* dependencies (already loaded) have been awaited; and an attempt that
\* ends leaves X 'loaded' if it succeeded and 'failed' if it failed.
C4_FailedThenRetry ==
    [][ /\ \A s \in CS_ScriptIds :
              /\ CS_SettleStep(s, "rejected") => CS_getModuleStatus(cs_scripts[s].mod)' = "failed"
              /\ CS_SettleStep(s, "fulfilled") => CS_getModuleStatus(cs_scripts[s].mod)' = "loaded"
        /\ \A m \in CS_Names :
              (CS_CallStep(m) /\ CS_getModuleStatus(m) = "failed")
                 => \/ CS_getModuleStatus(m)' = "loading"
                    \/ \E c \in 1..Len(cs_calls') :
                          /\ cs_calls'[c].mod = m
                          /\ cs_calls'[c].pc = "deps"
        /\ \A c \in CS_CallIds :
              (cs_calls[c].pc = "deps" /\ cs_calls'[c].pc = "load")
                 => CS_getModuleStatus(cs_calls[c].mod)' = "loading" ]_vars

\* The transitions of the load state the data model allows.
CS_AllowedEdges ==
    { <<"not-loaded", "loading">>, <<"loading", "loaded">>,
      <<"loading", "failed">>, <<"failed", "loading">> }

\* C6: the load state of a module, as getModuleStatus reports it, changes
\* only along not-loaded -> loading, loading -> loaded, loading -> failed
\* and failed -> loading.
C6_StatusEdges ==
    [][ \A m \in CS_Names :
           CS_getModuleStatus(m)' # CS_getModuleStatus(m)
              => <<CS_getModuleStatus(m), CS_getModuleStatus(m)'>> \in CS_AllowedEdges ]_vars

RP_LinkIds == 1..Len(rp_links)

\* The key of link element l.
RP_keyOf(l) == RP_key(rp_links[l].rel, rp_links[l].url)

\* The link elements attached to document.head.
RP_attached == {rp_head[i] : i \in 1..Len(rp_head)}

\* No element is in the document twice and no two attached elements have
\* the same key.
RP_oneElementPerKey ==
    \A i, j \in 1..Len(rp_head) :
        i # j => /\ rp_head[i] # rp_head[j]
                 /\ RP_keyOf(rp_head[i]) # RP_keyOf(rp_head[j])

\* C7: ResourcePreloader: in every state at most one hint element per key
\* (relation, url) is attached to the document, and a step that creates a
\* link element for a key leaves exactly one element of that key attached.
C7_OneHintPerKey ==
    /\ RP_oneElementPerKey
    /\ [][ /\ RP_oneElementPerKey'
           /\ \A l \in (Len(rp_links) + 1)..Len(rp_links') :
                 Cardinality({i \in 1..Len(rp_head') :
                                 /\ rp_links'[rp_head'[i]].rel = rp_links'[l].rel
                                 /\ rp_links'[rp_head'[i]].url = rp_links'[l].url}) = 1 ]_vars

\* A hint was removed by the conservative strategy and the same (relation,
\* url) was added again: two elements of one key were created, the later
\* one is attached and the earlier is not.
C7_Witness ==
    \E i, j \in RP_LinkIds :
        /\ i < j
        /\ RP_keyOf(i) = RP_keyOf(j)
        /\ j \in RP_attached
        /\ i \notin RP_attached

\* The hint elements that carry a priority other than critical.
RP_nonCritical(links, l) == links[l].priority \in {"high", "medium", "low"}

\* C8: ResourcePreloader: a step that classifies the connection as
\* conservative leaves no non-critical hint attached, and while the
\* strategy stays conservative no step attaches a non-critical hint.
C8_ConservativeKeepsOut ==
    [][ rp_strategy' = "conservative" =>
           /\ rp_strategy # "conservative" =>
                 \A i \in 1..Len(rp_head') : ~RP_nonCritical(rp_links', rp_head'[i])
           /\ rp_strategy = "conservative" =>
                 \A i \in 1..Len(rp_head') :
                    rp_head'[i] \notin RP_attached => ~RP_nonCritical(rp_links', rp_head'[i]) ]_vars

\* C9: ResourcePreloader: while the strategy is moderate a prefetch element
\* that becomes attached has priority critical or high, and a prefetch
\* element created with priority medium or low is left in the queue.
C9_ModerateOnlyHigh ==
    [][ (rp_strategy = "moderate" /\ rp_strategy' = "moderate") =>
           /\ \A i \in 1..Len(rp_head') :
                 (rp_head'[i] \notin RP_attached /\ rp_links'[rp_head'[i]].rel = "prefetch")
                    => rp_links'[rp_head'[i]].priority \in {"critical", "high"}
           /\ \A l \in (Len(rp_links) + 1)..Len(rp_links') :
                 (rp_links'[l].rel = "prefetch" /\ rp_links'[l].priority \in {"medium", "low"})
                    => \E q \in 1..Len(rp_preloadQueue') : rp_preloadQueue'[q].link = l ]_vars

\* C10: ResourcePreloader: setConservativeStrategy leaves every hint that
\* was added with priority critical attached and present in resourceHints.
C10_ConservativeKeepsCritical ==
    [][ (rp_strategy' = "conservative" /\ rp_links' = rp_links) =>
           \A l \in RP_attached :
              rp_links[l].priority = "critical"
                 => /\ \E i \in 1..Len(rp_head') : rp_head'[i] = l
                    /\ RP_keyOf(l) \in DOMAIN rp_resourceHints'
                    /\ rp_resourceHints'[RP_keyOf(l)] = l ]_vars

(***************************************************************************)
(*               processPreloadQueue on an arbitrary queue                 *)
(***************************************************************************)
\* entries in the queue when the flush starts
RP_MaxQueue == 4

\* The entries addPrefetch can have pushed: every priority, one of them twice.
RP_QueueInputs ==
    { [href |-> "/css/print.css", as |-> "style", priority |-> "low"],
      [href |-> "/img/hero.jpg", as |-> "image", priority |-> "critical"],
      [href |-> "/js/contact-form.js", as |-> "script", priority |-> "medium"],
      [href |-> "/js/comments.js", as |-> "script", priority |-> "high"],
      [href |-> "/css/posts.css", as |-> "style", priority |-> "medium"] }

\* The queues of distinct entries, in every order
RP_Queues ==
    { q \in UNION {[1..n -> RP_QueueInputs] : n \in 0..RP_MaxQueue} :
        \A i, j \in DOMAIN q : i # j => q[i] # q[j] }

\* The preloader with the entries of q pushed by addPrefetch (each with its
\* link element, created and not yet attached) and not yet flushed.
RP_withQueue(R, q) ==
    [R EXCEPT !.links = @ \o [i \in 1..Len(q) |->
                                [rel |-> "prefetch", url |-> q[i].href, as |-> q[i].as,
                                 priority |-> q[i].priority]],
              !.queue = [i \in 1..Len(q) |->
                           [href |-> q[i].href, as |-> q[i].as, priority |-> q[i].priority,
                            link |-> Len(R.links) + i]]]

InitQueue ==
    /\ rp_connection \in RP_Readings
    /\ \E q \in RP_Queues :
          LET R == RP_withQueue(RP_constructed(rp_connection), q) IN
          /\ rp_links = R.links
          /\ rp_head = R.head
          /\ rp_resourceHints = R.hints
          /\ rp_preloadQueue = R.queue
          /\ rp_preloadedResources = R.preloaded
          /\ rp_strategy = R.strategy
    /\ ML_Init
    /\ CS_Idle
    /\ EXT_Init
    /\ TR_Init

\* The queue is flushed by the strategy a connection change selects.
NextQueue ==
    \E c \in RP_Readings : RP_connectionChange(c) /\ UNCHANGED <<ml_vars, cs_vars, tr_vars, ext_vars>>

SpecQueue == InitQueue /\ [][NextQueue]_vars

\* The priorities the flush of a strategy allows
RP_allowedBy(strategy) ==
    IF strategy = "moderate" THEN {"critical", "high"}
    ELSE {"critical", "high", "medium", "low"}

\* The position of link l in the queue
RP_queuePosition(queue, l) == CHOOSE k \in 1..Len(queue) : queue[k].link = l

\* C11: a flush of the queue (by setModerateStrategy or setAggressiveStrategy)
\* appends to the document exactly the links of the queued entries whose
\* priority is allowed, in ascending rank (critical, high, medium, low) and,
\* within one rank, in queue order; the entries whose priority is not
\* allowed are not attached and remain in the queue, in their order.
C11_FlushInPriorityOrder ==
    [][ rp_strategy' \in {"moderate", "aggressive"} =>
          LET allowed == RP_allowedBy(rp_strategy')
              flushed == {k \in 1..Len(rp_preloadQueue) :
                            rp_preloadQueue[k].priority \in allowed}
              added == SubSeq(rp_head', Len(rp_head) + 1, Len(rp_head'))
              rank(l) == RP_priorities[rp_links[l].priority]
          IN  /\ Len(rp_head') = Len(rp_head) + Cardinality(flushed)
              /\ SubSeq(rp_head', 1, Len(rp_head)) = rp_head
              /\ {added[i] : i \in 1..Len(added)} = {rp_preloadQueue[k].link : k \in flushed}
              /\ \A i, j \in 1..Len(added) :
                    i < j => \/ rank(added[i]) < rank(added[j])
                             \/ /\ rank(added[i]) = rank(added[j])
                                /\ RP_queuePosition(rp_preloadQueue, added[i])
                                     < RP_queuePosition(rp_preloadQueue, added[j])
              /\ rp_preloadQueue' = SelectSeq(rp_preloadQueue,
                                              LAMBDA item : item.priority \notin allowed)
              /\ \A k \in 1..Len(rp_preloadQueue') :
                    /\ \A i \in 1..Len(rp_head') : rp_head'[i] # rp_preloadQueue'[k].link
                    /\ RP_key("prefetch", rp_preloadQueue'[k].href) \notin DOMAIN rp_resourceHints'
      ]_vars

\* The spec's example: entries queued in the order low, critical, medium,
\* high have been flushed and are the last four of the document, in the
\* order critical, high, medium, low.
C11_Witness ==
    /\ rp_preloadQueue = <<>>
    /\ Len(rp_links) >= 4 /\ Len(rp_head) >= 4
    /\ LET n == Len(rp_links) - 4
           h == Len(rp_head) - 4
       IN  /\ rp_links[n + 1].priority = "low"
           /\ rp_links[n + 2].priority = "critical"
           /\ rp_links[n + 3].priority = "medium"
           /\ rp_links[n + 4].priority = "high"
           /\ SubSeq(rp_head, h + 1, h + 4) = <<n + 2, n + 4, n + 3, n + 1>>

(***************************************************************************)
(*   CodeSplitter on a page that registers modules and calls its methods   *)
(***************************************************************************)
InitApi ==
    /\ cs_moduleRegistry = CS_registryWithDashboard
    /\ CS_constructed
    /\ ML_Init
    /\ RP_Idle
    /\ EXT_Init
    /\ TR_Init

\* The requests page code has made: loadModule, importModule, preloadModule
CS_pageRequests == Cardinality(CS_pageCalls) - cs_critical.i + Len(cs_requests)

NextApi ==
    \/ \E m \in CS_ApiNames :
          /\ CS_pageRequests < CS_MaxRequests
          /\ CS_loadModule(m) /\ UNCHANGED <<ml_vars, rp_vars, tr_vars, ext_vars>>
    \/ \E m \in CS_ApiNames : CS_pageRequests < CS_MaxRequests /\ CS_importModule(m)
    \/ \E m \in CS_ApiNames : CS_pageRequests < CS_MaxRequests /\ CS_pagePreloadModule(m)
    \/ \E r \in 1..Len(cs_requests) : CS_importFulfilled(r)
    \/ \E r \in 1..Len(cs_requests) : CS_importRejected(r)
    \/ \E c \in CS_CallIds : CS_afterDependencies(c) /\ UNCHANGED <<ml_vars, rp_vars, tr_vars, ext_vars>>
    \/ \E s \in CS_ScriptIds : CS_onLoad(s) /\ UNCHANGED <<ml_vars, rp_vars, tr_vars, ext_vars>>
    \/ \E s \in CS_ScriptIds : CS_onError(s) /\ UNCHANGED <<ml_vars, rp_vars, tr_vars, ext_vars>>
    \/ CS_loadCriticalModules /\ UNCHANGED <<ml_vars, rp_vars, tr_vars, ext_vars>>

SpecApi == InitApi /\ [][NextApi]_vars

\* The dependencies the registry declares for module m
CS_dependenciesOf(m) ==
    {CS_config(m).dependencies[i] : i \in 1..Len(CS_config(m).dependencies)}

\* C12: CodeSplitter: a script element of module M exists only when every
\* dependency of M has been loaded successfully; a loadModule(M) call that
\* waits for dependencies has requested all of them (one nested call each),
\* whatever the order in which they complete.
C12_DependenciesFirst ==
    /\ \A s \in CS_ScriptIds :
          CS_dependenciesOf(cs_scripts[s].mod) \subseteq cs_loadedModules
    /\ \A c \in CS_CallIds :
          (cs_calls[c].pc = "deps" \/ CS_children(c) # {})
             => {cs_calls[k].mod : k \in CS_children(c)} = CS_dependenciesOf(cs_calls[c].mod)

\* The script of the module with two dependencies has been created, after
\* the scripts of both dependencies have fired their load events.
C12_Witness ==
    \E s, a, b \in CS_ScriptIds :
       /\ cs_scripts[s].mod = "analytics-dashboard"
       /\ cs_scripts[a].mod = "performance-monitor"
       /\ cs_scripts[b].mod = "lazy-loader"
       /\ a < s /\ b < s
       /\ cs_scripts[a].promise = "fulfilled" /\ cs_scripts[b].promise = "fulfilled"

\* C15: CodeSplitter: every request for an identifier that is not registered
\* (loadModule, importModule, preloadModule) has been reported to its caller
\* as an error, and no script or link element exists for the identifier.
C15_NotRegisteredIsError ==
    /\ \A c \in CS_CallIds :
          ~CS_registered(cs_calls[c].mod) => cs_calls[c].st = "rejected"
    /\ \A r \in 1..Len(cs_requests) :
          ~CS_registered(cs_requests[r].mod) => cs_requests[r].st = "rejected"
    /\ \A s \in CS_ScriptIds : CS_registered(cs_scripts[s].mod)
    /\ \A l \in 1..Len(cs_links) : CS_registered(cs_links[l])

\* C16: CodeSplitter: the script of a module is created with a warning
\* exactly when the declared size of the module exceeds the budget of its
\* priority, and the load of a module over budget takes its course: the
\* call awaits the script, a load event makes the module loaded, an error
\* event makes it failed.
C16_BudgetOnlyWarns ==
    /\ \A s \in CS_ScriptIds :
          LET config == CS_config(cs_scripts[s].mod) IN
          /\ cs_scripts[s].warned <=> config.size > CS_budgets[config.priority]
          /\ cs_scripts[s].promise = "fulfilled" => cs_scripts[s].mod \in cs_loadedModules
          /\ cs_scripts[s].promise = "rejected" => cs_scripts[s].mod \in cs_failedModules
    /\ \A c \in CS_CallIds :
          cs_calls[c].pc = "load" =>
             /\ cs_calls[c].script \in CS_ScriptIds
             /\ cs_scripts[cs_calls[c].script].mod = cs_calls[c].mod

\* The module over budget has been loaded, its script created with the warning.
C16_Witness ==
    /\ "analytics-dashboard" \in cs_loadedModules
    /\ \E s \in CS_ScriptIds :
          /\ cs_scripts[s].mod = "analytics-dashboard"
          /\ cs_scripts[s].warned
          /\ cs_scripts[s].promise = "fulfilled"

(***************************************************************************)
(*               Script elements after their load has settled              *)
(***************************************************************************)
\* C13: in both script-injection loaders, the script element of a load
\* attempt that has settled (fulfilled or rejected) is no longer attached
\* to the document.
C13_SettledScriptsDetached ==
    /\ \A s \in CS_ScriptIds :
          cs_scripts[s].promise # "pending" => ~cs_scripts[s].attached
    /\ \A s \in ML_ScriptIds :
          ml_scripts[s].promise # "pending" => ~ml_scripts[s].attached

(***************************************************************************)
(*                    ModuleLoader with its timers                         *)
(***************************************************************************)
\* The timer of script s: once armed it fires unless onload or onerror
\* clears it.
ML_timer(s) ==
    /\ s \in ML_ScriptIds
    /\ ML_timeout(s)
    /\ UNCHANGED <<cs_vars, rp_vars, tr_vars, ext_vars>>

SpecMLFair ==
    /\ InitML
    /\ [][NextML]_vars
    /\ \A s \in 1..(Len(ML_criticalModules) + ML_MaxCalls) : WF_vars(ML_timer(s))

\* C14: ModuleLoader: every loadModule call that is pending eventually
\* settles, by the timeout if neither the load nor the error event of its
\* script comes; when the timeout fires on a pending load, the callers are
\* rejected and the module leaves the 'loading' state without becoming
\* loaded; and a load event that arrives after the timeout changes neither
\* loadedModules nor any other bookkeeping.
C14_TimeoutSettles ==
    /\ \A i \in 1..(Len(ML_criticalModules) + ML_MaxCalls) :
          (i \in ML_CallIds /\ ml_calls[i].st = "pending")
             ~> (i \in ML_CallIds /\ ml_calls[i].st # "pending")
    /\ [][ \A s \in ML_ScriptIds :
             LET src == ml_scripts[s].src IN
             /\ (ml_scripts[s].timer /\ ~ml_scripts'[s].timer /\ ~ml_scripts'[s].fired)
                   => /\ ml_scripts'[s].promise = "rejected"
                      /\ ml_loadingModules'[src] = 0
                      /\ ml_loadedModules' = ml_loadedModules
                      /\ ML_getModuleStatus(src)' # "loading"
                      /\ \A i \in ML_CallIds :
                            (ml_calls[i].promise = s /\ ml_calls[i].st = "pending")
                               => ml_calls'[i].st = "rejected"
             /\ (ml_scripts[s].promise = "rejected" /\ ~ml_scripts[s].fired
                   /\ ml_scripts'[s].fired)
                   => UNCHANGED <<ml_loadedModules, ml_loadingModules, ml_moduleCache, ml_calls>>
       ]_vars

\* The timeout has rejected a load, its caller is rejected and the module is
\* not loading, and the script has since fired its load event without the
\* module becoming loaded.
C14_Witness ==
    \E s \in ML_ScriptIds :
       /\ ml_scripts[s].promise = "rejected"
       /\ ml_scripts[s].fired
       /\ ml_scripts[s].src \notin ml_loadedModules
       /\ ML_getModuleStatus(ml_scripts[s].src) = "not-loaded"
       /\ \E i \in ML_CallIds : ml_calls[i].promise = s /\ ml_calls[i].st = "rejected"

(***************************************************************************)
(*                  The triggers of the three loaders                      *)
(***************************************************************************)
InitTriggers ==
    /\ ML_Init
    /\ CS_Idle
    /\ RP_Idle
    /\ EXT_Init
    /\ TR_Init

NextTriggers ==
    \/ \E e \in DOM_moduleElements, b \in BOOLEAN : ML_onIntersection(e, b)
    \/ CS_setupViewportBasedLoading
    \/ CS_setupInteractionPreloading
    \/ \E e \in DOM_moduleElements, b \in BOOLEAN : CS_onIntersection(e, b)
    \/ \E el \in DOM_preloadElements, b \in BOOLEAN : RP_onIntersection(el, b)
    \/ \E type \in DOM_interactionEvents : DOM_interaction(type)

SpecTriggers == InitTriggers /\ [][NextTriggers]_vars

\* The step delivers an intersection entry to the observer of a loader.
DOM_entryStep(on) ==
    /\ dom_events' = dom_events + 1
    /\ dom_last'.type = "intersection"
    /\ dom_last'.on = on

DOM_preloadElement(id) == CHOOSE el \in DOM_preloadElements : el.id = id

\* C17: for every entry an observer of ModuleLoader, CodeSplitter or
\* ResourcePreloader delivers: the element is observed; if the entry is
\* intersecting, the loads of the element are requested and the element is
\* no longer observed afterwards (and no element is ever observed again);
\* if it is not intersecting, nothing is requested and the observed
\* elements are the same.
C17_VisibilityOneShot ==
    [][ /\ DOM_entryStep("ModuleLoader") =>
             LET e == dom_last'.target IN
             /\ e \in ml_observed
             /\ IF dom_last'.hit
                THEN /\ ml_observed' = ml_observed \ {e}
                     /\ Len(ml_calls') = Len(ml_calls) + 1
                     /\ ml_calls'[Len(ml_calls')].src = DOM_dataModules(e)[1]
                ELSE UNCHANGED <<ml_observed, ml_vars>>
        /\ DOM_entryStep("CodeSplitter") =>
             LET e == dom_last'.target IN
             /\ e \in cs_observed
             /\ IF dom_last'.hit
                THEN /\ cs_observed' = cs_observed \ {e}
                     /\ Len(cs_calls') = Len(cs_calls) + 1
                     /\ cs_calls'[Len(cs_calls')].mod = DOM_dataModules(e)[1]
                ELSE UNCHANGED <<cs_observed, cs_vars>>
        /\ DOM_entryStep("ResourcePreloader") =>
             LET e == dom_last'.target
                 el == DOM_preloadElement(e)
             IN
             /\ e \in rp_observed
             /\ IF dom_last'.hit
                THEN /\ rp_observed' = rp_observed \ {e}
                     /\ el.src # "" => RP_key("preload", el.src) \in DOMAIN rp_resourceHints'
                ELSE UNCHANGED <<rp_observed, rp_vars>>
        /\ ml_observed' \subseteq ml_observed
        /\ rp_observed' \subseteq rp_observed
        /\ "viewport" \in cs_setup => cs_observed' \subseteq cs_observed
      ]_vars

\* C19: each loader has either all three interaction listeners or none; a
\* mousedown, touchstart or keydown event makes a loader that still listens
\* request its interaction-tagged loads once (ModuleLoader: loadModule of
\* /js/lazy-loader.js; CodeSplitter: preloadModule of the modules whose
\* trigger is 'interaction') and remove its three listeners, and it changes
\* nothing in a loader that no longer listens.
C19_InteractionOneShot ==
    /\ [](ml_listeners \in {DOM_interactionEvents, {}})
    /\ [](cs_listeners \in {DOM_interactionEvents, {}})
    /\ [][ (dom_events' = dom_events + 1 /\ dom_last'.type \in DOM_interactionEvents) =>
             /\ IF ml_listeners # {}
                THEN /\ ml_listeners' = {}
                     /\ Len(ml_calls') = Len(ml_calls) + 1
                     /\ ml_calls'[Len(ml_calls')].src = "/js/lazy-loader.js"
                ELSE UNCHANGED <<ml_listeners, ml_vars>>
             /\ IF cs_listeners # {}
                THEN /\ cs_listeners' = {}
                     /\ cs_links' = Append(cs_links, "newsletter")
                ELSE UNCHANGED <<cs_listeners, cs_links>>
             /\ UNCHANGED cs_vars
       ]_vars

\* Both loaders have acted on a first interaction, and a later interaction
\* event has found no listener: one load and one preload were requested.
C19_Witness ==
    /\ dom_last.type \in DOM_interactionEvents
    /\ ~dom_last.hit
    /\ "interaction" \in cs_setup
    /\ ml_listeners = {} /\ cs_listeners = {}
    /\ cs_links = <<"newsletter">>
    /\ Cardinality({i \in ML_CallIds : ml_calls[i].src = "/js/lazy-loader.js"}) = 1

(***************************************************************************)
(*                              LazyLoader                                 *)
(***************************************************************************)
InitLazy ==
    /\ ML_Init
    /\ CS_Idle
    /\ RP_Idle
    /\ EXT_Init
    /\ TR_Init

NextLazy ==
    \/ \E el \in DOM_lazyElements, b \in BOOLEAN : LL_handleIntersection(el, b)
    \/ LL_observeNewElements

SpecLazy == InitLazy /\ [][NextLazy]_vars

\* C18: LazyLoader: every element has been loaded (loadImage or
\* loadComponent) at most once, and an element that has been loaded is not
\* observed.
C18_LoadedOnce ==
    \A e \in DOMAIN ll_loads :
       /\ ll_loads[e] <= 1
       /\ ll_loads[e] = 1 => e \notin ll_observed

(***************************************************************************)
(*            Behaviour-based preloading of the ResourcePreloader          *)
(***************************************************************************)
InitBehavior ==
    /\ ML_Init
    /\ CS_Idle
    /\ RP_Init
    /\ EXT_Init
    /\ TR_Init

NextBehavior ==
    \/ RP_setupBehaviorBasedPreloading
    \/ \E type \in {"mouseover", "focusin"}, t \in DOM_hoverTargets : DOM_hover(type, t)

SpecBehavior == InitBehavior /\ [][NextBehavior]_vars

\* C20: ResourcePreloader: once a mouseover or focusin event on a link of
\* the site has called preloadRoute, the mouseover and focusin listeners are
\* removed and preloadRoute has been called by them once only.
C20_BehaviorOneShot ==
    rp_routeCalls > 0 => (rp_listeners = {} /\ rp_routeCalls = 1)

(***************************************************************************)
(*        CodeSplitter: the triggers that request modules on demand        *)
(***************************************************************************)
InitOnDemand ==
    /\ CS_Init
    /\ ML_Init
    /\ RP_Idle
    /\ EXT_Init
    /\ TR_Init

NextOnDemand ==
    \/ CS_setupIdleLoading
    \/ CS_setupInteractionPreloading
    \/ CS_setupViewportBasedLoading
    \/ DOM_idle
    \/ \E type \in DOM_interactionEvents : DOM_interaction(type)
    \/ \E e \in DOM_moduleElements, b \in BOOLEAN : CS_onIntersection(e, b)
    \/ \E l \in 1..Len(cs_loops) : CS_afterLoad(l)
    \/ \E c \in CS_CallIds : CS_afterDependencies(c) /\ UNCHANGED <<ml_vars, rp_vars, tr_vars, ext_vars>>
    \/ \E s \in CS_ScriptIds : CS_onLoad(s) /\ UNCHANGED <<ml_vars, rp_vars, tr_vars, ext_vars>>
    \/ \E s \in CS_ScriptIds : CS_onError(s) /\ UNCHANGED <<ml_vars, rp_vars, tr_vars, ext_vars>>
    \/ CS_loadCriticalModules /\ UNCHANGED <<ml_vars, rp_vars, tr_vars, ext_vars>>

SpecOnDemand == InitOnDemand /\ [][NextOnDemand]_vars

\* loadModule was called for module m, or a modulepreload link was added for it
CS_requested(m) ==
    \/ \E c \in CS_CallIds : cs_calls[c].mod = m
    \/ \E k \in 1..Len(cs_links) : cs_links[k] = m

\* The registered modules with the given loadTrigger
CS_triggeredBy(trigger) ==
    {cs_moduleRegistry[i].name : i \in {j \in 1..Len(cs_moduleRegistry) :
                                          cs_moduleRegistry[j].loadTrigger = trigger}}

\* C21: CodeSplitter, after construction: once the browser has become idle
\* (or the 2000 ms fallback has passed) every idle-tagged module has been
\* requested, and once a mousedown, touchstart or keydown event has occurred
\* every interaction-tagged module has been requested.
C21_TriggersRequestModules ==
    /\ dom_last.type = "idle" => \A m \in CS_triggeredBy("idle") : CS_requested(m)
    /\ dom_last.type \in DOM_interactionEvents =>
          \A m \in CS_triggeredBy("interaction") : CS_requested(m)

(***************************************************************************)
(*      CodeSplitter: termination of loadModule, with and without a        *)
(*      dependency cycle in the registry                                   *)
(***************************************************************************)
\* loadModule calls page code makes in the runs checked for termination
CS_MaxFairCalls == 1

\* The scripts and calls a run of that size can create
CS_FairIds == 1..(2 * Cardinality(CS_AllNames))

InitCycle ==
    /\ cs_moduleRegistry \in CS_Registries \cup {CS_registryWithCycle}
    /\ CS_constructed
    /\ ML_Init
    /\ RP_Idle
    /\ EXT_Init
    /\ TR_Init

\* A promise reaction of the CodeSplitter runs
CS_microtask ==
    /\ \/ \E c \in CS_CallIds : CS_afterDependencies(c)
       \/ CS_loadCriticalModules
    /\ UNCHANGED <<ml_vars, rp_vars, tr_vars, ext_vars>>

\* Script s fires its load or its error event
CS_scriptFires(s) ==
    /\ s \in CS_ScriptIds
    /\ CS_onLoad(s) \/ CS_onError(s)
    /\ UNCHANGED <<ml_vars, rp_vars, tr_vars, ext_vars>>

NextCycle ==
    \/ \E m \in CS_Names :
          /\ Cardinality(CS_pageCalls) < cs_critical.i + CS_MaxFairCalls
          /\ CS_loadModule(m) /\ UNCHANGED <<ml_vars, rp_vars, tr_vars, ext_vars>>
    \/ \E c \in CS_CallIds : CS_afterDependencies(c) /\ UNCHANGED <<ml_vars, rp_vars, tr_vars, ext_vars>>
    \/ \E s \in CS_ScriptIds : CS_onLoad(s) /\ UNCHANGED <<ml_vars, rp_vars, tr_vars, ext_vars>>
    \/ \E s \in CS_ScriptIds : CS_onError(s) /\ UNCHANGED <<ml_vars, rp_vars, tr_vars, ext_vars>>
    \/ CS_loadCriticalModules /\ UNCHANGED <<ml_vars, rp_vars, tr_vars, ext_vars>>

\* Promise reactions always run, and every script that was created
\* eventually fires load or error.
SpecCycleFair ==
    /\ InitCycle
    /\ [][NextCycle]_vars
    /\ WF_vars(CS_microtask)
    /\ \A s \in CS_FairIds : WF_vars(CS_scriptFires(s))

RECURSIVE CS_reachable(_, _)
\* The modules the dependencies lead to from the modules of the set, in at
\* most k steps
CS_reachable(from, k) ==
    IF k = 0 THEN from
    ELSE CS_reachable(from \cup UNION {{CS_config(m).dependencies[i] :
                                          i \in 1..Len(CS_config(m).dependencies)} :
                                       m \in {n \in from : CS_registered(n)}}, k - 1)

\* The modules module m depends on, directly or not
CS_dependsOn(m) ==
    IF ~CS_registered(m) THEN {}
    ELSE CS_reachable({CS_config(m).dependencies[i] :
                         i \in 1..Len(CS_config(m).dependencies)}, Len(cs_moduleRegistry))

\* Module m lies on a dependency cycle
CS_onCycle(m) == m \in CS_dependsOn(m)

\* The dependency graph reachable from module m has no cycle
CS_acyclicFrom(m) == \A n \in {m} \cup CS_dependsOn(m) : ~CS_onCycle(n)

CS_pendingCall(c) == c \in CS_CallIds /\ cs_calls[c].st = "pending"

\* C22: every loadModule call for a module whose reachable dependency graph
\* is acyclic eventually settles, provided every script that is created
\* eventually fires load or error; and a module that lies on a dependency
\* cycle is never loaded (no script is ever created for it).
C22_SettlesUnlessCyclic ==
    /\ \A c \in CS_FairIds :
          (CS_pendingCall(c) /\ CS_acyclicFrom(cs_calls[c].mod))
             ~> ~CS_pendingCall(c)
    /\ [](\A m \in CS_AllNames :
             CS_onCycle(m) =>
                /\ m \notin cs_loadedModules
                /\ \A s \in CS_ScriptIds : cs_scripts[s].mod # m)

\* loadModule('performance-analytics') by page code has resolved after its
\* dependency was loaded, and a call that waited for a script it did not
\* create has settled too.
C22_Witness ==
    /\ \E c \in CS_CallIds :
          /\ cs_calls[c].mod = "performance-analytics"
          /\ cs_calls[c].parent = 0
          /\ cs_calls[c].st = "resolved"
          /\ \E k \in CS_children(c) : cs_calls[k].st = "resolved"

(***************************************************************************)
(*                 CodeSplitter: the load states of a module               *)
(***************************************************************************)
\* getPerformanceReport
CS_getPerformanceReport ==
    [loadedModules |-> Cardinality(cs_loadedModules),
     failedModules |-> Cardinality(cs_failedModules),
     loadingModules |-> Cardinality({m \in CS_AllNames : cs_loadingPromises[m] # 0}),
     totalModules |-> Len(cs_moduleRegistry)]

\* C23: CodeSplitter: loadedModules, failedModules and the keys of
\* loadingPromises are pairwise disjoint, and the counts of
\* getPerformanceReport satisfy loaded + failed + loading <= total.
C23_ExactlyOneLoadState ==
    /\ cs_loadedModules \cap cs_failedModules = {}
    /\ \A m \in cs_loadedModules \cup cs_failedModules : cs_loadingPromises[m] = 0
    /\ LET report == CS_getPerformanceReport
       IN  report.loadedModules + report.failedModules + report.loadingModules
              <= report.totalModules

(***************************************************************************)
(*          ResourcePreloader: the strategy follows the connection         *)
(***************************************************************************)
\* C24: ResourcePreloader: whenever navigator.connection exists, getStrategy()
\* is the strategy of the latest reading (the one of construction or of the
\* last change event): conservative if saveData is set or effectiveType is
\* slow-2g or 2g, moderate if effectiveType is 3g, aggressive otherwise.
C24_StrategyFollowsConnection ==
    rp_connection # RP_noConnection =>
       RP_getStrategy =
          CASE rp_connection.saveData -> "conservative"
            [] ~rp_connection.saveData /\ rp_connection.effectiveType \in {"slow-2g", "2g"}
                 -> "conservative"
            [] ~rp_connection.saveData /\ rp_connection.effectiveType = "3g" -> "moderate"
            [] OTHER -> "aggressive"

\* A change event has moved the page from a conservative reading (which
\* removed a hint) to 3g without saveData, and the strategy is moderate.
C24_Witness ==
    /\ rp_connection = [effectiveType |-> "3g", saveData |-> FALSE]
    /\ rp_strategy = "moderate"
    /\ \E l \in RP_LinkIds : l \notin RP_attached

(***************************************************************************)
(*      LazyLoader behind the IntersectionObserver of DirectLoader         *)
(***************************************************************************)
\* A page with both scripts: DirectLoader has run disableLazyLoading and
\* initializeAllModules before the LazyLoader is constructed, or only after.
InitDirect ==
    /\ dl_overridden \in BOOLEAN
    /\ cs_loops = <<>>
    /\ NM_constructed
    /\ PAGE_Init
    /\ nm_markup = "complete"
    /\ ML_Init
    /\ CS_Idle
    /\ RP_Idle
    /\ TR_Init

\* The real observer delivers its entries, and 'contentLoaded' events occur
NextDirect ==
    \/ \E el \in DOM_lazyElements, b \in BOOLEAN : LL_handleIntersection(el, b)
    \/ LL_observeNewElements

SpecDirect == InitDirect /\ [][NextDirect]_vars

\* C25: with the IntersectionObserver of disableLazyLoading in place, every
\* element the LazyLoader has passed to observe has been loaded exactly
\* once: at once by observe, and never again by the real observer.
C25_DirectLoadOnce ==
    dl_overridden => \A el \in LL_matching : ll_loads[el.id] = 1

(***************************************************************************)
(*              CodeSplitter: a dependency that fails to load              *)
(***************************************************************************)
\* A loadModule call made for a dependency of call c was rejected
CS_dependencyFailed(c) ==
    \E k \in CS_CallIds : cs_calls[k].parent = c /\ cs_calls[k].st = "rejected"

C27_RegistryClosed ==
    \A c \in CS_CallIds :
       /\ cs_calls[c].parent # 0 => CS_registered(cs_calls[c].mod)
       /\ (CS_registered(cs_calls[c].mod) /\ cs_calls[c].st = "rejected") =>
             \A k \in CS_children(c) : CS_registered(cs_calls[k].mod)

(***************************************************************************)
(*         CodeSplitter: loadCriticalModules and loadAllModules            *)
(***************************************************************************)
InitAll ==
    /\ CS_Init
    /\ ML_Init
    /\ RP_Idle
    /\ EXT_Init
    /\ TR_Init

NextAll ==
    \/ CS_loadAllModules
    \/ \E l \in 1..Len(cs_loops) : CS_afterLoad(l)
    \/ \E c \in CS_CallIds : CS_afterDependencies(c) /\ UNCHANGED <<ml_vars, rp_vars, tr_vars, ext_vars>>
    \/ \E s \in CS_ScriptIds : CS_onLoad(s) /\ UNCHANGED <<ml_vars, rp_vars, tr_vars, ext_vars>>
    \/ \E s \in CS_ScriptIds : CS_onError(s) /\ UNCHANGED <<ml_vars, rp_vars, tr_vars, ext_vars>>
    \/ CS_loadCriticalModules /\ UNCHANGED <<ml_vars, rp_vars, tr_vars, ext_vars>>

SpecAll == InitAll /\ [][NextAll]_vars

\* The loadAllModules loop l goes from position i to its next await, or ends:
\* it does not reject, every module it passes over is loaded, and the
\* module it requests next is not loaded and gets a new loadModule call.
CS_allStep(l, i) ==
    LET names == CS_allModules
        to == IF cs_loops'[l].st = "running" THEN cs_loops'[l].i ELSE Len(names) + 1
    IN  /\ cs_loops'[l].st \in {"running", "resolved"}
        /\ to > i
        /\ \A j \in (i + 1)..(to - 1) : names[j] \in cs_loadedModules
        /\ cs_loops'[l].st = "running" =>
              /\ names[to] \notin cs_loadedModules
              /\ cs_loops'[l].call = Len(cs_calls) + 1
              /\ cs_calls'[cs_loops'[l].call].mod = names[to]

\* C28: loadCriticalModules requests the critical modules one after another
\* in registration order: it requests the next one only when the call for
\* the previous one has resolved and that module is loaded, and after a
\* rejected call it requests nothing more. loadAllModules goes through the
\* registry in order and requests every module that is not loaded, also
\* after rejected calls, and it never rejects.
C28_CriticalInOrderAllBestEffort ==
    [][/\ cs_critical' # cs_critical =>
             /\ cs_critical.st = "running"
             /\ IF cs_calls[cs_critical.call].st = "rejected"
                THEN cs_critical' = [cs_critical EXCEPT !.st = "failed"]
                ELSE /\ cs_calls[cs_critical.call].st = "resolved"
                     /\ \A j \in 1..cs_critical.i : CS_criticalModules[j] \in cs_loadedModules
                     /\ \/ /\ cs_critical.i = Len(CS_criticalModules)
                           /\ cs_critical' = [cs_critical EXCEPT !.st = "done"]
                        \/ /\ cs_critical.i < Len(CS_criticalModules)
                           /\ cs_critical' = [i |-> cs_critical.i + 1,
                                              call |-> Len(cs_calls) + 1, st |-> "running"]
                           /\ cs_calls'[Len(cs_calls) + 1].mod =
                                 CS_criticalModules[cs_critical.i + 1]
       /\ \A l \in 1..Len(cs_loops') :
             cs_loops'[l].method = "loadAllModules" =>
                IF l > Len(cs_loops) THEN CS_allStep(l, 0)
                ELSE IF cs_loops'[l] # cs_loops[l]
                THEN /\ cs_loops[l].st = "running"
                     /\ cs_calls[cs_loops[l].call].st # "pending"
                     /\ CS_allStep(l, cs_loops[l].i)
                ELSE TRUE]_vars

\* loadCriticalModules has stopped at viewport-manager, whose script fired
\* error, without requesting matrix-animation; loadAllModules has gone on
\* after the same rejection, has requested the modules after it, and has
\* resolved.
C28_Witness ==
    /\ cs_critical = [i |-> 1, call |-> 1, st |-> "failed"]
    /\ "viewport-manager" \in cs_failedModules \ cs_loadedModules
    /\ \E l \in 1..Len(cs_loops) :
          /\ cs_loops[l].method = "loadAllModules"
          /\ cs_loops[l].st = "resolved"
    /\ \E c \in CS_CallIds : cs_calls[c].mod = "matrix-animation" /\ cs_calls[c].st = "resolved"
    /\ \E c \in CS_CallIds : cs_calls[c].mod = "lazy-loader" /\ cs_calls[c].st = "rejected"

(***************************************************************************)
(*        ResourcePreloader: resourceHints and the document agree          *)
(***************************************************************************)
\* C29: ResourcePreloader: a link element the preloader created is attached
\* to document.head if and only if its key is in resourceHints and maps to
\* that element.
C29_HintsAgreeWithDocument ==
    \A l \in RP_LinkIds :
       l \in RP_attached <=>
          /\ RP_keyOf(l) \in DOMAIN rp_resourceHints
          /\ rp_resourceHints[RP_keyOf(l)] = l

\* A hint was removed by clearNonCriticalPreloads and requested again: the
\* first element is detached, and the key maps to the second, attached one.
C29_Witness ==
    \E l1, l2 \in RP_LinkIds :
       /\ l1 < l2
       /\ RP_keyOf(l1) = RP_keyOf(l2)
       /\ l1 \notin RP_attached
       /\ l2 \in RP_attached
       /\ rp_resourceHints[RP_keyOf(l2)] = l2

(***************************************************************************)
(*                 NewsletterManager: one submission at a time             *)
(***************************************************************************)
InitNewsletter ==
    /\ dl_overridden = FALSE
    /\ cs_loops = <<>>
    /\ NM_constructed
    /\ PAGE_Init
    /\ nm_markup \in NM_Markups
    /\ ML_Init
    /\ CS_Idle
    /\ RP_Idle
    /\ TR_Init

NextNewsletter ==
    \/ \E onLine, configured \in BOOLEAN : NM_handleSubmit(onLine, configured)
    \/ \E c \in 1..Len(nm_calls) : NM_afterCreate(c)
    \/ NM_pageshow
    \/ \E email \in NM_Emails : NM_input(email)
    \/ NM_blur
    \/ \E chosen \in BOOLEAN : NM_changeFrequency(chosen)
    \/ \E checked \in BOOLEAN : NM_changeConsent(checked)
    \/ \E d \in {1, NM_cooldown} : NM_tick(d)

SpecNewsletter == InitNewsletter /\ [][NextNewsletter]_vars

\* C30: NewsletterManager: at most one handleSubmit call is in progress, and
\* isSubmitting is true exactly while one is: a submit event that finds
\* isSubmitting set starts nothing, and once a handleSubmit call that
\* started a submission has completed (resolved or rejected) isSubmitting
\* is false again.
C30_OneSubmissionAtATime ==
    /\ Cardinality(NM_awaiting) <= 1
    /\ nm_state.isSubmitting <=> NM_awaiting # {}


\* The handleSubmit calls that passed validation
NM_passed == {c \in 1..Len(nm_calls) : nm_calls[c].started}

\* A step is a 'submit' event
NM_submitStep == Len(nm_calls') = Len(nm_calls) + 1

\* C31: NewsletterManager.handleSubmit: a submit attempt made less than
\* 5000 ms after the last attempt that passed validation is refused with
\* the wait message and starts no submission (isSubmitting,
\* lastSubmissionTime and retryCount unchanged); an attempt that fails
\* validation neither starts nor extends the cooldown.
C31_CooldownRefuses ==
    [][NM_submitStep =>
         /\ (\E c \in NM_passed : nm_now - nm_calls[c].at < NM_cooldown) =>
               /\ nm_state' = nm_state
               /\ nm_message' = "wait"
               /\ ~nm_calls'[Len(nm_calls')].started
         /\ NM_validateForm(nm_errors, nm_fields) # {} =>
               /\ nm_state'.lastSubmissionTime = nm_state.lastSubmissionTime
               /\ ~nm_calls'[Len(nm_calls')].started]_vars


\* C32: NewsletterManager: a submit made while online and outside the
\* cooldown, with a valid email, a selected frequency and consent checked
\* (a handleSubmit call that reaches its await), ends in the success state
\* (form hidden, success container shown) with retryCount reset to 0, and
\* handleSubmissionError is not invoked.
C32_ValidSubmitSucceeds ==
    [][\A c \in NM_awaiting :
          nm_calls'[c].st = "resolved" =>
             /\ nm_view' = "success"
             /\ nm_state'.retryCount = 0
             /\ nm_message' # "failed"]_vars


\* C33: NewsletterManager: after any sequence of field edits, validations
\* and submissions, the submit button is disabled exactly when there is a
\* validation error, the form is incomplete, or a submission is in
\* progress; in particular, once the user has completed a valid form the
\* button is enabled.
C33_ButtonFollowsForm ==
    nm_button <=> \/ nm_errors # {}
                  \/ ~(nm_fields.email # "empty" /\ nm_fields.frequency /\ nm_fields.consent)
                  \/ nm_state.isSubmitting


(***************************************************************************)
(*          Newsletter: the script runs in a document still changing       *)
(***************************************************************************)
InitInit ==
    /\ dl_overridden = FALSE
    /\ cs_loops = <<>>
    /\ NM_constructed
    /\ nm_markup = "complete"
    /\ \E doc \in NI_Documents : NI_scriptLoaded(doc)
    /\ LV_Idle
    /\ VM_constructed([width |-> 1920, height |-> 769])
    /\ PM_Init
    /\ ML_Init
    /\ CS_Idle
    /\ RP_Idle
    /\ TR_Init

NextInit ==
    \/ NI_DOMContentLoaded
    \/ NI_pageInitialize
    \/ \E added \in {"form", "message", "other"} : NI_mutation(added)
    \/ NI_mutationCallback

SpecInit == InitInit /\ [][NextInit]_vars

\* The callback of the MutationObserver runs once records are queued, and
\* the document finishes loading.
SpecInitFair ==
    /\ InitInit
    /\ [][NextInit]_vars
    /\ WF_vars(NI_mutationCallback)
    /\ WF_vars(NI_DOMContentLoaded)

\* C34: Newsletter initialization is idempotent: across any sequence of
\* initializeNewsletter calls, DOMContentLoaded and DOM mutation callbacks,
\* at most one NewsletterManager is ever bound to the form (its submit
\* handler is registered at most once), including when a constructor call
\* throws part-way through.
C34_BoundAtMostOnce == nm_handlers <= 1

\* C35: Newsletter dynamic-content handling: if the newsletter form is
\* absent when the script first initializes and is added to the document
\* later, a NewsletterManager is eventually initialized on that form.
C35_FormAddedLaterIsBound ==
    (nm_document.form /\ nm_document.message) ~> (nm_instance = "bound")


(***************************************************************************)
(*              NewsletterManager: the typo checker of the email           *)
(***************************************************************************)
InitSuggest ==
    /\ dl_overridden = FALSE
    /\ cs_loops = <<>>
    /\ NM_constructed
    /\ nm_markup = "complete"
    /\ NI_scriptLoaded(NI_completeDocument)
    /\ VM_constructed([width |-> 1920, height |-> 769])
    /\ PM_Init
    /\ ML_Init
    /\ CS_Idle
    /\ RP_Idle
    /\ TR_Init
    /\ lv_input \in LV_Inputs
    /\ lv_domains \in LV_DomainLists
    /\ lv_suggestions = <<"none">>

NextSuggest == LV_getSuggestions

SpecSuggest == InitSuggest /\ [][NextSuggest]_vars

\* The edit distance of two strings: the least number of insertions,
\* deletions and substitutions of one character that turn s into t
RECURSIVE LV_editDistance(_, _)
LV_editDistance(s, t) ==
    IF s = <<>> THEN Len(t)
    ELSE IF t = <<>> THEN Len(s)
    ELSE IF Head(s) = Head(t) THEN LV_editDistance(Tail(s), Tail(t))
    ELSE 1 + LV_min(LV_editDistance(Tail(s), Tail(t)),
                    LV_min(LV_editDistance(Tail(s), t), LV_editDistance(s, Tail(t))))

\* How often d occurs in a list
LV_count(list, d) == Cardinality({i \in 1..Len(list) : list[i] = d})

LV_called == lv_suggestions # <<"none">>

\* The input and the domains are short enough for LV_editDistance
LV_short ==
    /\ Len(lv_input) <= LV_MaxLen + 1
    /\ \A i \in 1..Len(lv_domains) : Len(lv_domains[i]) <= LV_MaxLen + 1

\* C36: NewsletterManager.levenshteinDistance returns the standard edit
\* distance of its two strings (0 exactly for equal strings, symmetric),
\* and getSuggestions(input, domains) returns exactly the domains whose
\* distance to the lower-cased input is 1 or 2, in non-decreasing order of
\* distance, so an exact match of a known domain yields no suggestion (the
\* matched domain is never suggested, and with the domains of validateEmail
\* nothing is).
C36_SuggestionsByEditDistance ==
    LV_called =>
       LET inputLower == NM_toLowerCase(lv_input)
           distance(d) == IF LV_short THEN LV_editDistance(inputLower, d)
                          ELSE NM_levenshteinDistance(inputLower, d)
           near(d) == distance(d) \in {1, 2}
           expected == SelectSeq(lv_domains, near)
       IN  /\ \A i \in 1..Len(lv_domains) :
                LET d == lv_domains[i]
                IN  /\ NM_levenshteinDistance(inputLower, d) = distance(d)
                    /\ NM_levenshteinDistance(d, inputLower)
                          = NM_levenshteinDistance(inputLower, d)
                    /\ NM_levenshteinDistance(inputLower, d) = 0 <=> inputLower = d
           /\ Len(lv_suggestions) = Len(expected)
           /\ \A i \in 1..Len(lv_domains) :
                LV_count(lv_suggestions, lv_domains[i])
                   = LV_count(expected, lv_domains[i])
           /\ \A i, j \in 1..Len(lv_suggestions) :
                i < j => distance(lv_suggestions[i]) <= distance(lv_suggestions[j])
           /\ \A i \in 1..Len(lv_suggestions) : lv_suggestions[i] # inputLower
           /\ (lv_domains = NM_commonDomains
                 /\ \E i \in 1..Len(NM_commonDomains) : NM_commonDomains[i] = inputLower)
                => lv_suggestions = <<>>

\* getSuggestions has put the nearer of two domains first, left out a
\* domain at distance 0 or 3, or answered a slip in a common domain.
C36_Witness ==
    /\ LV_called
    /\ LET inputLower == NM_toLowerCase(lv_input)
       IN  \/ /\ Len(lv_suggestions) = 2
              /\ lv_suggestions = <<lv_domains[2], lv_domains[1]>>
              /\ LV_editDistance(inputLower, lv_domains[1]) = 2
              /\ LV_editDistance(inputLower, lv_domains[2]) = 1
              /\ lv_input # inputLower


(***************************************************************************)
(*                 ViewportManager: breakpoint and orientation             *)
(***************************************************************************)
InitViewport ==
    /\ dl_overridden = FALSE
    /\ cs_loops = <<>>
    /\ NM_constructed
    /\ nm_markup = "complete"
    /\ NI_scriptLoaded(NI_completeDocument)
    /\ LV_Idle
    /\ PM_Init
    /\ ML_Init
    /\ CS_Idle
    /\ RP_Idle
    /\ TR_Init
    /\ \E window \in VM_Windows : VM_constructed(window)

NextViewport ==
    \/ \E window \in VM_Windows : VM_resize(window)
    \/ VM_orientationchange
    \/ \E timer \in {"resize", "orientationchange"} : VM_timer(timer)

SpecViewport == InitViewport /\ [][NextViewport]_vars

\* The events of one kind the document has seen, in order
VM_eventsOf(kind) ==
    LET isKind(e) == e[1] = kind IN SelectSeq(vm_events, isKind)

\* Every event of the kind carries another value than the one before it,
\* and the last one carries the current value
VM_onlyChanges(kind, current) ==
    LET events == VM_eventsOf(kind)
    IN  /\ events # <<>>
        /\ events[Len(events)][2] = current
        /\ \A i \in 1..(Len(events) - 1) : events[i][2] # events[i + 1][2]

\* C37: ViewportManager: after init and after every handleResize,
\* document.body carries exactly one bp-* class, equal to
\* getBreakpoint(window.innerWidth) (mobile for width <= 480, tablet <= 768,
\* desktop <= 1200 and for 1201..1599, ultrawide >= 1600), and exactly one
\* orientation-* class (landscape iff width > height); currentBreakpoint
\* and orientation equal those classes, and a viewport:breakpointchange or
\* viewport:orientationchange event is dispatched only when the respective
\* value actually changes.
C37_ClassesFollowViewport ==
    LET width == vm_window.width
        breakpoint == IF width <= 480 THEN "mobile"
                      ELSE IF width <= 768 THEN "tablet"
                      ELSE IF width <= 1599 THEN "desktop"
                      ELSE "ultrawide"
        orientation == IF width > vm_window.height THEN "landscape" ELSE "portrait"
    IN  /\ vm_classes = {<<"bp", vm_state.currentBreakpoint>>,
                         <<"orientation", vm_state.orientation>>}
        /\ vm_state.currentBreakpoint \in {"mobile", "tablet", "desktop", "ultrawide"}
        /\ vm_state.orientation \in {"landscape", "portrait"}
        /\ VM_onlyChanges("breakpointchange", vm_state.currentBreakpoint)
        /\ VM_onlyChanges("orientationchange", vm_state.orientation)
        /\ vm_timeout = {} =>
              /\ vm_state.currentBreakpoint = breakpoint
              /\ vm_state.orientation = orientation

\* handleResize has run after the window went from ultrawide landscape to
\* a desktop width between 1201 and 1599 in portrait: both classes were
\* replaced and both events dispatched.
C37_Witness ==
    /\ vm_timeout = {}
    /\ vm_window.width \in 1201..1599
    /\ vm_window.height > vm_window.width
    /\ vm_classes = {<<"bp", "desktop">>, <<"orientation", "portrait">>}
    /\ Len(vm_events) = 4
    /\ vm_events[1] = <<"breakpointchange", "ultrawide">>
    /\ vm_events[2] = <<"orientationchange", "landscape">>


(***************************************************************************)
(*                 PerformanceMonitor: the stored reports                  *)
(***************************************************************************)
InitReports ==
    /\ dl_overridden = FALSE
    /\ cs_loops = <<>>
    /\ NM_constructed
    /\ nm_markup = "complete"
    /\ NI_scriptLoaded(NI_completeDocument)
    /\ LV_Idle
    /\ VM_constructed([width |-> 1920, height |-> 769])
    /\ ML_Init
    /\ CS_Idle
    /\ RP_Idle
    /\ TR_Init
    /\ PM_Init

NextReports == \E recommended \in BOOLEAN : PM_generateReport(recommended)

SpecReports == InitReports /\ [][NextReports]_vars

\* C38: PerformanceMonitor.storeReport: after any number of generated
\* reports, the stored 'performanceReports' list holds at most 10 reports,
\* and they are the most recently stored ones in the order they were
\* stored.
C38_LastTenReports ==
    LET kept == IF Len(pm_generated) < 10 THEN Len(pm_generated) ELSE 10
    IN  /\ Len(pm_storage) <= 10
        /\ Len(pm_storage) = kept
        /\ \A i \in 1..kept :
              pm_storage[i] = pm_generated[Len(pm_generated) - kept + i]

\* Twelve reports have been generated: the first two are gone
C38_Witness ==
    /\ Len(pm_generated) = 12
    /\ Len(pm_storage) = 10
    /\ pm_storage[1].timestamp = 3
    /\ pm_storage[10].timestamp = 12
    /\ pm_storage[1].recommendations # pm_storage[10].recommendations

====
